---- MODULE Spec2Model ----
(***************************************************************************)
(* A model of the docset resolution pipeline of docsapi: URL normalisation *)
(* (resolveTargetUrl, stripHtmlExtension), the fetch fallback orchestrator *)
(* fetchDocumentationMarkdown, the detector detectDocsetType, the          *)
(* extractor extractDocContent and the search searchDocumentation of       *)
(* src/lib/docset.                                                         *)
(*                                                                         *)
(* Strings of the program are sequences of one-character strings, so that  *)
(* endsWith, slice, lastIndexOf and the regular expressions of the code    *)
(* are computed character by character.  The URL parser is WHATWG's for    *)
(* http(s) URLs without userinfo, port, percent-encoding or dot segments:  *)
(* the inputs below contain none of these.                                 *)
(***************************************************************************)
EXTENDS Integers, Sequences, FiniteSets, TLC

VARIABLES
    request,            \* DocsetRequest: baseUrl, path (<<>> when absent), docsetType ("none" when absent)
    pc,                 \* position in fetchDocumentationMarkdown
    resolvedUrl,        \* resolveTargetUrl(request.baseUrl, request.path)
    targetUrl,          \* stripHtmlExtension(resolvedUrl)
    genericFallbackUrl, \* URL of the first HTML fetch
    forceGeneric,       \* set when the Apple JSON path failed
    fetchUrl,           \* URL the returned document is attributed to
    html,               \* index in log of the fetch whose body is held in html (0: unset)
    firstError,         \* the error caught from the first fetchHtml (0: none)
    log,                \* the fetchHtml calls issued so far, in order
    detected,           \* docset type handed to extractDocContent ("none": not yet)
    result,             \* outcome of the call
    searchArgs,         \* searchDocumentation's baseUrl, query, docsetType ("none" when absent)
    searchPc,           \* position in searchDocumentation
    bases,              \* buildSearchBaseCandidates(baseUrl)
    pathsToTry,         \* the index paths left by the docsetType filter
    baseIndex,          \* the base the loop is at (1-based)
    pathIndex,          \* the index path the inner loop is at (1-based)
    fetches,            \* the fetchText calls issued so far, in order
    lastOutcome,        \* what the fetch issued last led to
    searchReturn,       \* outcome of searchDocumentation
    sampleDoc,          \* a document, its URL and a docset type handed to the pure functions
    samplePc,           \* which pure function was applied
    sampleOut,          \* what it returned
    indexArgs,          \* a fetched search index, the probing base and the normalised query
    indexPc,            \* which index parser was applied
    indexOut,           \* the results it returned
    httpRequest,        \* an HTTP request: method, path, q parameter, Accept header
    httpPc,             \* position of the request in the application
    httpResponse        \* the response sent

docVars == <<request, pc, resolvedUrl, targetUrl, genericFallbackUrl,
             forceGeneric, fetchUrl, html, firstError, log, detected, result>>

searchVars == <<searchArgs, searchPc, bases, pathsToTry, baseIndex, pathIndex,
                fetches, lastOutcome, searchReturn>>

sampleVars == <<sampleDoc, samplePc, sampleOut>>

indexVars == <<indexArgs, indexPc, indexOut>>

httpVars == <<httpRequest, httpPc, httpResponse>>

vars == <<docVars, searchVars, sampleVars, indexVars, httpVars>>

(***************************************************************************)
(* Bounds of the model.                                                    *)
(***************************************************************************)
MaxSegs == 2

(***************************************************************************)
(* String literals of the source.                                          *)
(***************************************************************************)
sHttps == <<"h","t","t","p","s",":","/","/">>
sHttp == <<"h","t","t","p",":","/","/">>
sIndexHtml == <<"i","n","d","e","x",".","h","t","m","l">>
sSlashIndexHtml == <<"/","i","n","d","e","x",".","h","t","m","l">>
sGlossaryHtml == <<"g","l","o","s","s","a","r","y",".","h","t","m","l">>
sDotHtml == <<".","h","t","m","l">>
sAppleHost == <<"d","e","v","e","l","o","p","e","r",".","a","p","p","l","e",".","c","o","m">>
sSosumiHost == <<"s","o","s","u","m","i",".","a","i">>
sHigMarker == <<"d","e","s","i","g","n","/","h","u","m","a","n","-","i","n","t","e","r","f","a","c","e","-","g","u","i","d","e","l","i","n","e","s">>

LowerAZ == <<"a","b","c","d","e","f","g","h","i","j","k","l","m","n","o","p","q","r","s","t","u","v","w","x","y","z">>
UpperAZ == <<"A","B","C","D","E","F","G","H","I","J","K","L","M","N","O","P","Q","R","S","T","U","V","W","X","Y","Z">>
Digits == {"0","1","2","3","4","5","6","7","8","9"}

(***************************************************************************)
(* String operations of JavaScript, on character sequences.                *)
(***************************************************************************)
Min(a, b) == IF a < b THEN a ELSE b

Take(s, n) == SubSeq(s, 1, Min(n, Len(s)))

Drop(s, n) == SubSeq(s, Min(n, Len(s)) + 1, Len(s))

StartsWith(s, p) == Len(p) <= Len(s) /\ SubSeq(s, 1, Len(p)) = p

EndsWith(s, p) == Len(p) <= Len(s) /\ SubSeq(s, Len(s) - Len(p) + 1, Len(s)) = p

\* s.slice(0, -n)
SliceEnd(s, n) == IF n >= Len(s) THEN <<>> ELSE SubSeq(s, 1, Len(s) - n)

\* s.includes(p)
Includes(s, p) == \E i \in 0..(Len(s) - Len(p)) : SubSeq(s, i + 1, i + Len(p)) = p

\* s.lastIndexOf(c) + 1: the 1-based position of the last c, 0 when there is none
LastIndexOf1(s, c) ==
    LET at == {i \in 1..Len(s) : s[i] = c}
    IN  IF at = {} THEN 0 ELSE CHOOSE i \in at : \A j \in at : j <= i

\* the first position of s holding a character of cs, Len(s) + 1 when there is none
FirstOf(s, cs) ==
    LET at == {i \in 1..Len(s) : s[i] \in cs}
    IN  IF at = {} THEN Len(s) + 1 ELSE CHOOSE i \in at : \A j \in at : i <= j

LowerChar(c) ==
    IF \E i \in 1..26 : UpperAZ[i] = c
    THEN LowerAZ[CHOOSE i \in 1..26 : UpperAZ[i] = c]
    ELSE c

ToLowerCase(s) == [i \in 1..Len(s) |-> LowerChar(s[i])]

IsAlnum(c) == c \in Digits \/ \E i \in 1..26 : LowerAZ[i] = c \/ UpperAZ[i] = c

\* s.trim()
Trim(s) ==
    LET at == {i \in 1..Len(s) : s[i] # " "}
    IN  IF at = {} THEN <<>>
        ELSE SubSeq(s, CHOOSE i \in at : \A j \in at : i <= j,
                       CHOOSE i \in at : \A j \in at : j <= i)

\* /^https?:\/\//i.test(s)
HasHttpScheme(s) ==
    \/ StartsWith(ToLowerCase(Take(s, 8)), sHttps)
    \/ StartsWith(ToLowerCase(Take(s, 7)), sHttp)

\* /\.[a-z0-9]+$/i.test(s)
LooksLikeFile(s) ==
    \E i \in 1..(Len(s) - 1) : s[i] = "." /\ \A j \in (i + 1)..Len(s) : IsAlnum(s[j])

(***************************************************************************)
(* The URL class.  A parsed URL keeps its query with the leading "?" and   *)
(* its fragment with the leading "#"; <<>> is a null query or fragment.    *)
(***************************************************************************)
InvalidUrl == [ok |-> FALSE, scheme |-> <<>>, host |-> <<>>, pathname |-> <<>>,
               query |-> <<>>, fragment |-> <<>>]

\* the length of the http:// or https:// scheme s begins with, 0 when it has none
SchemeLen(s) ==
    IF StartsWith(ToLowerCase(Take(s, 8)), sHttps) THEN 8
    ELSE IF StartsWith(ToLowerCase(Take(s, 7)), sHttp) THEN 7
    ELSE 0

\* the end of the query in what follows the path
QueryEnd(afterPath) ==
    IF afterPath # <<>> /\ afterPath[1] = "?" THEN FirstOf(afterPath, {"#"}) ELSE 1

UrlOf(scheme, host, pathname, afterPath, queryEnd) ==
    [ok |-> TRUE, scheme |-> scheme, host |-> host, pathname |-> pathname,
     query |-> Take(afterPath, queryEnd - 1), fragment |-> Drop(afterPath, queryEnd - 1)]

ParseTail(scheme, host, pathname, afterPath) ==
    UrlOf(scheme, host, pathname, afterPath, QueryEnd(afterPath))

ParsePath(scheme, host, afterHost, pathEnd) ==
    ParseTail(scheme, host, IF pathEnd = 1 THEN <<"/">> ELSE Take(afterHost, pathEnd - 1),
              Drop(afterHost, pathEnd - 1))

ParseHost(scheme, rest, hostEnd) ==
    IF hostEnd = 1 THEN InvalidUrl
    ELSE ParsePath(scheme, ToLowerCase(Take(rest, hostEnd - 1)), Drop(rest, hostEnd - 1),
                   FirstOf(Drop(rest, hostEnd - 1), {"?", "#"}))

ParseScheme(s, schemeLen) ==
    IF schemeLen = 0 THEN InvalidUrl
    ELSE ParseHost(ToLowerCase(Take(s, schemeLen)), Drop(s, schemeLen),
                   FirstOf(Drop(s, schemeLen), {"/", "?", "#"}))

\* new URL(s)
ParseUrl(s) == ParseScheme(s, SchemeLen(s))

\* url.toString()
UrlToString(u) == u.scheme \o u.host \o u.pathname \o u.query \o u.fragment

\* url.origin
Origin(u) == u.scheme \o u.host

\* url.hash: empty for a null and for an empty fragment
HashOf(u) == IF Len(u.fragment) <= 1 THEN <<>> ELSE u.fragment

\* url.search: empty for a null and for an empty query
SearchOf(u) == IF Len(u.query) <= 1 THEN <<>> ELSE u.query

\* url.pathname = p
SetPathname(u, p) ==
    [u EXCEPT !.pathname = IF StartsWith(p, <<"/">>) THEN p ELSE <<"/">> \o p]

\* new URL(rel, base) for a base whose pathname ends in "/"
ResolveUrl(rel, base) ==
    IF HasHttpScheme(rel) THEN ParseUrl(rel)
    ELSE IF StartsWith(rel, <<"/", "/">>) THEN ParseUrl(base.scheme \o Drop(rel, 2))
    ELSE IF StartsWith(rel, <<"/">>) THEN ParseUrl(Origin(base) \o rel)
    ELSE IF rel = <<>> THEN [base EXCEPT !.fragment = <<>>]
    ELSE IF rel[1] = "?" THEN ParseUrl(Origin(base) \o base.pathname \o rel)
    ELSE IF rel[1] = "#" THEN ParseUrl(Origin(base) \o base.pathname \o base.query \o rel)
    ELSE ParseUrl(Origin(base) \o Take(base.pathname, LastIndexOf1(base.pathname, "/")) \o rel)

(***************************************************************************)
(* URL normalisation.                                                      *)
(***************************************************************************)
\* the base directory resolveTargetUrl resolves a path argument against
BaseDirOf(basePath) ==
    IF EndsWith(basePath, <<"/">>) THEN basePath
    ELSE IF LooksLikeFile(basePath) THEN Take(basePath, LastIndexOf1(basePath, "/"))
    ELSE basePath \o <<"/">>

\* the relative reference resolveTargetUrl hands to new URL(path, base)
ResolvedPath(trimmedPath, baseDir) ==
    IF StartsWith(trimmedPath, <<"/">>) /\ baseDir # <<"/">>
    THEN Drop(trimmedPath, 1)
    ELSE trimmedPath

Resolved(url) == [err |-> "none", url |-> url]

Rejected(err) == [err |-> err, url |-> <<>>]

\* new URL(resolvedPath, baseForResolve).toString()
ResolveAgainst(resolved) ==
    IF resolved.ok THEN Resolved(UrlToString(resolved)) ELSE Rejected("Invalid URL")

ResolveInDir(trimmedPath, origin, baseDir) ==
    ResolveAgainst(ResolveUrl(ResolvedPath(trimmedPath, baseDir), ParseUrl(origin \o baseDir)))

ResolveParsed(parsedBase, trimmedPath) ==
    IF ~parsedBase.ok THEN Rejected("Invalid URL")
    ELSE IF trimmedPath = <<>> THEN Resolved(UrlToString(parsedBase))
    ELSE ResolveInDir(trimmedPath, Origin(parsedBase), BaseDirOf(parsedBase.pathname))

\* a resolver that returns an absolute path argument before it looks at the base
ResolveTrimmedPathFirst(trimmedBase, trimmedPath) ==
    IF trimmedPath # <<>> /\ HasHttpScheme(trimmedPath) THEN Resolved(trimmedPath)
    ELSE IF trimmedBase = <<>> THEN Rejected("baseUrl is required")
    ELSE ResolveParsed(ParseUrl(IF HasHttpScheme(trimmedBase) THEN trimmedBase
                                ELSE sHttps \o trimmedBase),
                       trimmedPath)

ResolveTrimmed(trimmedBase, trimmedPath) ==
    IF trimmedBase = <<>> THEN Rejected("baseUrl is required")
    ELSE IF trimmedPath # <<>> /\ HasHttpScheme(trimmedPath) THEN Resolved(trimmedPath)
    ELSE ResolveParsed(ParseUrl(IF HasHttpScheme(trimmedBase) THEN trimmedBase
                                ELSE sHttps \o trimmedBase),
                       trimmedPath)

\* resolveTargetUrl(baseUrl, path): err is "none", or the error thrown
resolveTargetUrl(baseUrl, path) == ResolveTrimmed(Trim(baseUrl), Trim(path))

\* the pathname stripHtmlExtension assigns for an index.html / .html pathname
StripPathname(pathname) ==
    IF EndsWith(pathname, sIndexHtml)
    THEN (IF Len(sSlashIndexHtml) >= Len(pathname) THEN <<"/">>
          ELSE SliceEnd(pathname, Len(sSlashIndexHtml)))
    ELSE IF EndsWith(pathname, sGlossaryHtml) THEN pathname
    ELSE IF EndsWith(pathname, sDotHtml) THEN SliceEnd(pathname, Len(sDotHtml))
    ELSE pathname

\* the pathname without its trailing slash, the root excepted
StripTrailingSlash(pathname) ==
    IF pathname # <<"/">> /\ EndsWith(pathname, <<"/">>)
    THEN SliceEnd(pathname, 1)
    ELSE pathname

\* a normaliser that keeps the fragment
ClearHashSkipped(parsed) == parsed

\* if (parsed.hash) parsed.hash = ""
ClearHash(parsed) ==
    IF HashOf(parsed) # <<>> THEN [parsed EXCEPT !.fragment = <<>>] ELSE parsed

StripParsed(parsed) ==
    UrlToString(SetPathname(parsed,
        StripTrailingSlash(SetPathname(parsed, StripPathname(parsed.pathname)).pathname)))

StripOrKeep(url, parsed) == IF ~parsed.ok THEN url ELSE StripParsed(ClearHash(parsed))

\* stripHtmlExtension(url)
stripHtmlExtension(url) == StripOrKeep(url, ParseUrl(url))

NormalizeResolved(r) == IF r.err = "none" THEN stripHtmlExtension(r.url) ELSE <<>>

\* the normaliser of a base URL without path argument
NormalizeUrl(baseUrl) == NormalizeResolved(resolveTargetUrl(baseUrl, <<>>))

IsAppleParsed(parsed) ==
    parsed.ok /\ (EndsWith(parsed.host, sAppleHost) \/ parsed.host = sSosumiHost)

\* isAppleHost(url)
isAppleHost(url) == IsAppleParsed(ParseUrl(url))

\* isHigPath(pathname)
isHigPath(pathname) == Includes(pathname, sHigMarker)

(***************************************************************************)
(* HTML documents.  A document is the tree of its body element, its        *)
(* <title>, the content of its generator meta tag, and the marker strings  *)
(* its text contains.  Text is a sequence of words.                        *)
(***************************************************************************)
El(tag, id, cls, role, kids) ==
    [tag |-> tag, id |-> id, cls |-> cls, role |-> role, text |-> <<>>, kids |-> kids]

Txt(words) ==
    [tag |-> "#text", id |-> "", cls |-> {}, role |-> "", text |-> words, kids |-> <<>>]

\* a compound selector: "" leaves the tag, id, class or role open
Sel(tag, id, cls, role) == [tag |-> tag, id |-> id, cls |-> cls, role |-> role]

selectorsByType ==
    [apple |-> <<>>,
     docusaurus |-> << <<Sel("main", "", "", ""), Sel("article", "", "", "")>>,
                       <<Sel("", "", "theme-doc-markdown", "")>>,
                       <<Sel("", "", "markdown", "")>> >>,
     mkdocs |-> << <<Sel("", "", "md-content__inner", "")>>,
                   <<Sel("", "", "md-content", "")>>,
                   <<Sel("main", "", "", "")>> >>,
     sphinx |-> << <<Sel("div", "", "", "main")>>,
                   <<Sel("", "", "document", "")>>,
                   <<Sel("", "content", "", "")>> >>,
     typedoc |-> << <<Sel("", "main-content", "", "")>>,
                    <<Sel("", "", "tsd-panel", "")>>,
                    <<Sel("main", "", "", "")>> >>,
     jsdoc |-> << <<Sel("", "main", "", "")>>,
                  <<Sel("section", "main", "", "")>>,
                  <<Sel("", "", "page", "")>> >>,
     rustdoc |-> << <<Sel("main", "", "", "")>>,
                    <<Sel("", "main-content", "", "")>>,
                    <<Sel("", "", "docblock", "")>> >>,
     godoc |-> << <<Sel("main", "", "", "")>>,
                  <<Sel("", "pkg-overview", "", "")>>,
                  <<Sel("", "pkg-index", "", "")>> >>,
     pdoc |-> << <<Sel("main", "", "", "")>>,
                 <<Sel("", "content", "", "")>>,
                 <<Sel("", "", "pdoc", "")>> >>,
     generic |-> << <<Sel("article", "", "", "")>>,
                    <<Sel("main", "", "", "")>>,
                    <<Sel("div", "", "", "main")>>,
                    <<Sel("", "content", "", "")>>,
                    <<Sel("", "", "content", "")>> >>]

fallbackSelectors ==
    << <<Sel("article", "", "", "")>>,
       <<Sel("main", "", "", "")>>,
       <<Sel("div", "", "", "main")>>,
       <<Sel("", "content", "", "")>>,
       <<Sel("", "", "content", "")>>,
       <<Sel("body", "", "", "")>> >>

stripTags == {"nav", "header", "footer", "aside", "form", "button", "script",
              "style", "noscript", "svg"}

stripClasses == {"toc", "table-of-contents", "breadcrumbs", "breadcrumb",
                 "pagination", "sidebar", "theme-doc-sidebar-container",
                 "theme-doc-toc", "theme-doc-toc-mobile", "md-sidebar",
                 "wy-nav-side", "rst-versions"}

CompoundMatches(node, c) ==
    /\ node.tag # "#text"
    /\ c.tag = "" \/ node.tag = c.tag
    /\ c.id = "" \/ node.id = c.id
    /\ c.cls = "" \/ c.cls \in node.cls
    /\ c.role = "" \/ node.role = c.role

RECURSIVE PathsOf(_)
RECURSIVE PathsOfKids(_, _)
\* the paths (child indices from the body) of the nodes of a tree, in document order
PathsOf(node) == << <<>> >> \o PathsOfKids(node.kids, 1)

PathsOfKids(kids, i) ==
    IF i > Len(kids) THEN <<>>
    ELSE LET sub == PathsOf(kids[i])
         IN  [j \in 1..Len(sub) |-> <<i>> \o sub[j]] \o PathsOfKids(kids, i + 1)

RECURSIVE NodeAt(_, _)
NodeAt(node, path) ==
    IF path = <<>> THEN node ELSE NodeAt(node.kids[Head(path)], Tail(path))

\* element.matches(selector) for a compound or a two-step descendant selector
SelectorMatches(body, path, selector) ==
    /\ CompoundMatches(NodeAt(body, path), selector[Len(selector)])
    /\ \/ Len(selector) = 1
       \/ \E n \in 0..(Len(path) - 1) : CompoundMatches(NodeAt(body, Take(path, n)), selector[1])

NoNode == <<0>>

FirstHit(paths, hits) ==
    IF hits = {} THEN NoNode ELSE paths[CHOOSE j \in hits : \A k \in hits : j <= k]

SelectIn(body, paths, selector) ==
    FirstHit(paths, {j \in 1..Len(paths) : SelectorMatches(body, paths[j], selector)})

\* document.querySelector(selector): the path of the first match, or NoNode
querySelector(body, selector) == SelectIn(body, PathsOf(body), selector)

RECURSIVE FirstSelected(_, _)
FirstOrNext(body, hit, rest) == IF hit # NoNode THEN hit ELSE FirstSelected(body, rest)

\* the first node a list of selectors finds, or NoNode
FirstSelected(body, selectors) ==
    IF selectors = <<>> THEN NoNode
    ELSE FirstOrNext(body, querySelector(body, Head(selectors)), Tail(selectors))

OwnOrFallback(body, own) ==
    IF own # NoNode THEN own ELSE FirstSelected(body, fallbackSelectors)

\* findMainContent(document, docsetType): the path of the root
findMainContent(body, docsetType) ==
    OwnOrFallback(body, FirstSelected(body, selectorsByType[docsetType]))

IsUnwanted(node) ==
    node.tag # "#text" /\ (node.tag \in stripTags \/ node.cls \cap stripClasses # {})

RECURSIVE StripKids(_)
StripKids(kids) ==
    IF kids = <<>> THEN <<>>
    ELSE (IF IsUnwanted(Head(kids)) THEN <<>>
          ELSE << [Head(kids) EXCEPT !.kids = StripKids(Head(kids).kids)] >>)
         \o StripKids(Tail(kids))

\* removeUnwanted(root): root with every descendant a strip selector matches removed
removeUnwanted(root) == [root EXCEPT !.kids = StripKids(root.kids)]

RECURSIVE ReplaceAt(_, _, _)
\* the tree with the node at path replaced
ReplaceAt(node, path, new) ==
    IF path = <<>> THEN new
    ELSE [node EXCEPT !.kids[Head(path)] = ReplaceAt(node.kids[Head(path)], Tail(path), new)]

RECURSIVE TextContent(_)
RECURSIVE TextOfKids(_)
\* node.textContent.trim()
TextContent(node) == node.text \o TextOfKids(node.kids)

TextOfKids(kids) ==
    IF kids = <<>> THEN <<>> ELSE TextContent(Head(kids)) \o TextOfKids(Tail(kids))

\* document.querySelector("h1")?.textContent?.trim() ?? document.title?.trim() ?? ""
TitleAt(document, h1, docTitle) ==
    IF h1 # NoNode THEN TextContent(NodeAt(document, h1)) ELSE docTitle

TitleOf(document, docTitle) ==
    TitleAt(document, querySelector(document, <<Sel("h1", "", "", "")>>), docTitle)

ExtractedFrom(page, rootPath, root) ==
    [title |-> TitleOf(ReplaceAt(page.body, rootPath, root), page.title),
     contentHtml |-> root.kids]

ExtractAt(page, rootPath) ==
    ExtractedFrom(page, rootPath, removeUnwanted(NodeAt(page.body, rootPath)))

\* extractDocContent(html, docsetType)
extractDocContent(page, docsetType) == ExtractAt(page, findMainContent(page.body, docsetType))

(***************************************************************************)
(* Markdown: a sequence of lines, a level-1 heading (h = 1) or a paragraph *)
(* (h = 0).  The converter is turndown's; elements other than h1 render as *)
(* their children.                                                         *)
(***************************************************************************)
RECURSIVE htmlToMarkdown(_)
LineOf(n) ==
    IF n.tag = "#text"
    THEN (IF n.text = <<>> THEN <<>> ELSE << [h |-> 0, text |-> n.text] >>)
    ELSE IF n.tag = "h1"
    THEN (IF TextContent(n) = <<>> THEN <<>> ELSE << [h |-> 1, text |-> TextContent(n)] >>)
    ELSE htmlToMarkdown(n.kids)

\* htmlToMarkdown(html)
htmlToMarkdown(nodes) ==
    IF nodes = <<>> THEN <<>> ELSE LineOf(Head(nodes)) \o htmlToMarkdown(Tail(nodes))

\* the nodes turndown sees when handed the entire fetched HTML
WholeHtml(page) ==
    (IF page.title = <<>> THEN <<>> ELSE <<Txt(page.title)>>) \o <<page.body>>

\* markdown.startsWith(`# ${title}`)
StartsWithTitle(markdown, title) ==
    markdown # <<>> /\ markdown[1].h = 1 /\ StartsWith(markdown[1].text, title)

(***************************************************************************)
(* Docset type detection.                                                  *)
(***************************************************************************)
sDocusaurus == <<"d","o","c","u","s","a","u","r","u","s">>
sMkdocs == <<"m","k","d","o","c","s">>
sSphinx == <<"s","p","h","i","n","x">>
sTypedoc == <<"t","y","p","e","d","o","c">>
sJsdoc == <<"j","s","d","o","c">>
sRustdoc == <<"r","u","s","t","d","o","c">>
sPdoc == <<"p","d","o","c">>
sPkgGoDev == <<"p","k","g",".","g","o",".","d","e","v">>
sGodocOrg == <<"g","o","d","o","c",".","o","r","g">>

docsetTypes == {"apple", "docusaurus", "mkdocs", "sphinx", "typedoc", "jsdoc",
                "rustdoc", "godoc", "pdoc", "generic"}

\* getGenerator(html): the content of the generator meta tag, lower-cased
getGenerator(page) == ToLowerCase(page.generator)

\* hasAny(html, needles)
hasAny(page, needles) == \E needle \in needles : needle \in page.needles

\* detectDocsetType(html, url)
detectDocsetType(page, url) ==
    LET generator == getGenerator(page)
        lowerUrl == ToLowerCase(url)
    IN  IF isAppleHost(url) THEN "apple"
        ELSE IF Includes(generator, sDocusaurus)
                \/ hasAny(page, {"id=\"__docusaurus\"", "data-docusaurus"})
        THEN "docusaurus"
        ELSE IF Includes(generator, sMkdocs)
                \/ hasAny(page, {"md-content", "data-md-color-scheme"})
        THEN "mkdocs"
        ELSE IF Includes(generator, sSphinx) \/ hasAny(page, {"sphinxsidebar", "wy-nav-side"})
        THEN "sphinx"
        ELSE IF Includes(generator, sTypedoc) \/ hasAny(page, {"tsd-kind", "tsd-page-title"})
        THEN "typedoc"
        ELSE IF Includes(generator, sJsdoc)
                \/ hasAny(page, {"jsdoc", "class=\"page\" id=\"main\""})
        THEN "jsdoc"
        ELSE IF Includes(generator, sRustdoc) \/ hasAny(page, {"rustdoc", "rustdoc-search"})
        THEN "rustdoc"
        ELSE IF Includes(lowerUrl, sPkgGoDev) \/ Includes(lowerUrl, sGodocOrg)
                \/ hasAny(page, {"pkg-overview"})
        THEN "godoc"
        ELSE IF Includes(generator, sPdoc) \/ hasAny(page, {"pdoc", "module-list"})
        THEN "pdoc"
        ELSE "generic"

(***************************************************************************)
(* The documents the remote hosts serve.                                   *)
(***************************************************************************)
\* <nav>ignore me</nav><main><article><h1>Intro</h1><p>Welcome</p></article></main>
ArticlePage ==
    [generator |-> <<>>, needles |-> {}, title |-> <<"Guide">>,
     body |-> El("body", "", {}, "", <<
        El("nav", "", {}, "", <<Txt(<<"ignore", "me">>)>>),
        El("main", "", {}, "", <<
            El("article", "", {}, "", <<
                El("h1", "", {}, "", <<Txt(<<"Intro">>)>>),
                El("p", "", {}, "", <<Txt(<<"Welcome">>)>>) >>) >>) >>)]

\* a Sphinx generator meta tag, a MkDocs content wrapper, and Sphinx's main division
MixedPage ==
    [generator |-> <<"S","p","h","i","n","x">>, needles |-> {"md-content"},
     title |-> <<"Mixed">>,
     body |-> El("body", "", {}, "", <<
        El("div", "", {"md-content"}, "", <<
            El("p", "", {}, "", <<Txt(<<"Wrapper">>)>>) >>),
        El("div", "", {}, "main", <<
            El("h1", "", {}, "", <<Txt(<<"Reference">>)>>),
            El("p", "", {}, "", <<Txt(<<"Body">>)>>) >>) >>)]

\* <main> holding nothing but a navigation block
NavOnlyPage ==
    [generator |-> <<>>, needles |-> {}, title |-> <<"Menu">>,
     body |-> El("body", "", {}, "", <<
        El("main", "", {}, "", <<
            El("nav", "", {}, "", <<Txt(<<"Home">>)>>) >>) >>)]

\* an empty body
BlankPage ==
    [generator |-> <<>>, needles |-> {}, title |-> <<>>,
     body |-> El("body", "", {}, "", <<>>)]

\* <h1>Docs</h1><main><h1>Docs for widgets</h1><p>Body</p></main>: the heading of
\* the site ahead of the content, the heading of the page within it
BannerPage ==
    [generator |-> <<>>, needles |-> {}, title |-> <<"Widgets">>,
     body |-> El("body", "", {}, "", <<
        El("h1", "", {}, "", <<Txt(<<"Docs">>)>>),
        El("main", "", {}, "", <<
            El("h1", "", {}, "", <<Txt(<<"Docs", "for", "widgets">>)>>),
            El("p", "", {}, "", <<Txt(<<"Body">>)>>) >>) >>)]

Pages == <<ArticlePage, MixedPage, NavOnlyPage, BlankPage, BannerPage>>

\* the statuses of a failing response
FailStatuses == {404, 500}

(***************************************************************************)
(* Requests.                                                               *)
(***************************************************************************)
sDocsHost == <<"d","o","c","s",".","e","x","a","m","p","l","e",".","c","o","m">>
sOtherAbs == <<"h","t","t","p","s",":","/","/","o","t","h","e","r",".","e","x","a","m","p","l","e",".","c","o","m","/","x",".","h","t","m","l","#","f">>
sEn == <<"e","n">>
sStable == <<"s","t","a","b","l","e">>
sGuide == <<"g","u","i","d","e">>
sIntro == <<"i","n","t","r","o">>
sIntroHtml == <<"i","n","t","r","o",".","h","t","m","l">>
sGenindexHtml == <<"g","e","n","i","n","d","e","x",".","h","t","m","l">>
sDocumentation == <<"d","o","c","u","m","e","n","t","a","t","i","o","n">>
sSwift == <<"s","w","i","f","t">>
sButtons == <<"b","u","t","t","o","n","s">>
sComponents == <<"c","o","m","p","o","n","e","n","t","s">>
sQueryV == <<"?","v","=","1">>
sFragTerms == <<"#","t","e","r","m","s">>
sSlash == <<"/">>

\* the requests of the orchestrator's specification
Bases ==
    { sHttps \o sDocsHost \o sSlash \o sGuide,
      sHttps \o sDocsHost \o sSlash \o sGuide \o sSlash \o sIntroHtml,
      sHttps \o sDocsHost \o sSlash \o sGuide \o sSlash,
      sHttps \o sDocsHost \o sSlash \o sGuide \o sSlash \o sGlossaryHtml \o sFragTerms,
      sHttps \o sDocsHost \o sSlash,
      sHttps \o sDocsHost \o sSlash \o sGuide \o sQueryV,
      sDocsHost \o sSlash \o sEn \o sSlash \o sStable \o sSlash,
      sHttps \o sAppleHost \o sSlash \o sDocumentation \o sSlash \o sSwift,
      sHttps \o sAppleHost \o sSlash \o sHigMarker \o sSlash \o sButtons,
      <<" ">> }

PathArgs == { <<>>, sSlash \o sGuide \o sSlash \o sIntro, sOtherAbs }

TypeArgs == {"none", "sphinx", "apple"}

Requests == [baseUrl : Bases, path : PathArgs, docsetType : TypeArgs]

\* the requests of the normaliser's specification: every path of up to MaxSegs
\* segments, with and without scheme, trailing slash, query and fragment
SegVocab == {sEn, sGuide, sIndexHtml, sGlossaryHtml, sGenindexHtml, sIntroHtml}

RECURSIVE PathsOfLen(_)
PathsOfLen(n) ==
    IF n = 0 THEN {<<>>}
    ELSE {p \o sSlash \o seg : p \in PathsOfLen(n - 1), seg \in SegVocab}

NormPaths == UNION {PathsOfLen(n) : n \in 0..MaxSegs}

NormBases ==
    {pre \o sDocsHost \o p \o slash \o q \o f :
        pre \in {sHttps, <<>>, <<" ">> \o sHttps},
        p \in NormPaths,
        slash \in {<<>>, sSlash},
        q \in {<<>>, sQueryV},
        f \in {<<>>, <<"#">>, sFragTerms}}

NormPathArgs ==
    { <<>>,
      sSlash \o sGuide \o sSlash \o sIntro,
      sSlash \o sSlash \o sGuide,
      sIntroHtml,
      sOtherAbs }

NormRequests == [baseUrl : NormBases, path : NormPathArgs, docsetType : {"none"}]

(***************************************************************************)
(* fetchDocumentationMarkdown.                                             *)
(***************************************************************************)
NoResult ==
    [kind |-> "none", markdown |-> <<>>, url |-> <<>>, docsetType |-> "none",
     error |-> "none", status |-> 0]

Returned(markdown, url, docsetType) ==
    [kind |-> "ok", markdown |-> markdown, url |-> url, docsetType |-> docsetType,
     error |-> "none", status |-> 0]

Thrown(error, status) ==
    [kind |-> "error", markdown |-> <<>>, url |-> <<>>, docsetType |-> "none",
     error |-> error, status |-> status]

\* the record of one fetchHtml call: stage names the call site ("target", "slash" or
\* "original"), page is the index in Pages of the body served
Attempt(stage, url, ok, status, page) ==
    [stage |-> stage, url |-> url, ok |-> ok, status |-> status, page |-> page]

\* no call of searchDocumentation is under way
SearchIdle ==
    /\ searchArgs = [baseUrl |-> <<>>, query |-> <<>>, docsetType |-> "none"]
    /\ searchPc = "idle"
    /\ bases = <<>>
    /\ pathsToTry = <<>>
    /\ baseIndex = 0
    /\ pathIndex = 0
    /\ fetches = <<>>
    /\ lastOutcome = "none"
    /\ searchReturn = [kind |-> "none", results |-> <<>>, error |-> "none"]

\* no pure function is applied
SampleIdle ==
    /\ sampleDoc = [page |-> BlankPage, url |-> <<>>, docsetType |-> "none"]
    /\ samplePc = "idle"
    /\ sampleOut = [detected |-> "none", title |-> <<>>, contentHtml |-> <<>>]

\* no index parser is applied
IndexIdle ==
    /\ indexArgs = [kind |-> "none", raw |-> <<>>, baseUrl |-> <<>>, query |-> <<>>]
    /\ indexPc = "idle"
    /\ indexOut = [kind |-> "none", results |-> <<>>]

\* no HTTP request is being served
HttpIdle ==
    /\ httpRequest = [method |-> "none", path |-> <<>>, search |-> <<>>, q |-> <<>>, accept |-> "none"]
    /\ httpPc = "idle"
    /\ httpResponse = [handler |-> "none"]

DocWith(requests, at) ==
    /\ request \in requests
    /\ pc = at
    /\ resolvedUrl = <<>>
    /\ targetUrl = <<>>
    /\ genericFallbackUrl = <<>>
    /\ forceGeneric = FALSE
    /\ fetchUrl = <<>>
    /\ html = 0
    /\ firstError = 0
    /\ log = <<>>
    /\ detected = "none"
    /\ result = NoResult

\* no call of fetchDocumentationMarkdown is under way
DocIdle == DocWith({[baseUrl |-> <<>>, path |-> <<>>, docsetType |-> "none"]}, "idle")

InitWith(requests) ==
    DocWith(requests, "start") /\ SearchIdle /\ SampleIdle /\ IndexIdle /\ HttpIdle

Init == InitWith(Requests)

InitNorm == InitWith(NormRequests)

\* request.docsetType === "apple" || isAppleHost(targetUrl)
IsApple(req, target) == req.docsetType = "apple" \/ isAppleHost(target)

\* const targetUrl = stripHtmlExtension(resolvedUrl), and the choice of the path
Normalized(target) ==
    /\ targetUrl' = target
    /\ genericFallbackUrl' = target
    /\ pc' = IF IsApple(request, target) THEN "apple" ELSE "fetch"

ResolvedTo(r) ==
    IF r.err # "none"
    THEN /\ result' = Thrown(r.err, 0)
         /\ pc' = "done"
         /\ UNCHANGED <<resolvedUrl, targetUrl, genericFallbackUrl>>
    ELSE /\ resolvedUrl' = r.url
         /\ Normalized(stripHtmlExtension(r.url))
         /\ UNCHANGED result

\* resolveTargetUrl, stripHtmlExtension and the choice of the Apple or the generic path
Resolve ==
    /\ pc = "start"
    /\ ResolvedTo(resolveTargetUrl(request.baseUrl, request.path))
    /\ UNCHANGED <<request, forceGeneric, fetchUrl, html, firstError, log, detected>>
    /\ UNCHANGED <<searchVars, sampleVars, indexVars, httpVars>>

(***************************************************************************)
(* The Apple path.  The JSON fetches and renderers are collaborators: each *)
(* either delivers or throws.                                              *)
(***************************************************************************)
sAppleOrigin == sHttps \o sAppleHost

sHigPrefix == sSlash \o sHigMarker \o sSlash

\* the Markdown the Apple renderers deliver
AppleMarkdown == << [h |-> 1, text |-> <<"Apple">>] >>

\* the paths the HIG table of contents may match a request to
HigTocPaths == { sHigPrefix \o sComponents \o sSlash \o sButtons }

\* pathname.replace(/^\/?(design\/human-interface-guidelines\/)/, "")
HigPathOf(pathname) ==
    IF StartsWith(pathname, sHigPrefix) THEN Drop(pathname, Len(sHigPrefix)) ELSE pathname

\* generateAppleDocUrl(normalizeDocumentationPath(pathname))
AppleDocUrl(pathname) == sAppleOrigin \o pathname

ApplePathname == ParseUrl(targetUrl).pathname

\* fetchHIGPageData and renderHIGFromJSON deliver for the requested page
AppleHigOk ==
    /\ pc = "apple"
    /\ isHigPath(ApplePathname)
    /\ result' = Returned(AppleMarkdown, sAppleOrigin \o sHigPrefix \o HigPathOf(ApplePathname),
                          "apple")
    /\ pc' = "done"
    /\ UNCHANGED <<request, resolvedUrl, targetUrl, genericFallbackUrl, forceGeneric,
                   fetchUrl, html, firstError, log, detected>>
    /\ UNCHANGED <<searchVars, sampleVars, indexVars, httpVars>>

\* the page fails, the table of contents matches, and the matched page delivers
AppleHigTocOk ==
    /\ pc = "apple"
    /\ isHigPath(ApplePathname)
    /\ \E matched \in HigTocPaths :
        /\ genericFallbackUrl' = sAppleOrigin \o matched
        /\ result' = Returned(AppleMarkdown, sAppleOrigin \o matched, "apple")
    /\ pc' = "done"
    /\ UNCHANGED <<request, resolvedUrl, targetUrl, forceGeneric, fetchUrl, html,
                   firstError, log, detected>>
    /\ UNCHANGED <<searchVars, sampleVars, indexVars, httpVars>>

\* the page fails, the table of contents matches, and the matched page fails too
AppleHigTocFail ==
    /\ pc = "apple"
    /\ isHigPath(ApplePathname)
    /\ \E matched \in HigTocPaths : genericFallbackUrl' = sAppleOrigin \o matched
    /\ forceGeneric' = TRUE
    /\ pc' = "fetch"
    /\ UNCHANGED <<request, resolvedUrl, targetUrl, fetchUrl, html, firstError, log,
                   detected, result>>
    /\ UNCHANGED <<searchVars, sampleVars, indexVars, httpVars>>

\* the page fails and the table of contents fails or matches nothing
AppleHigFail ==
    /\ pc = "apple"
    /\ isHigPath(ApplePathname)
    /\ forceGeneric' = TRUE
    /\ pc' = "fetch"
    /\ UNCHANGED <<request, resolvedUrl, targetUrl, genericFallbackUrl, fetchUrl, html,
                   firstError, log, detected, result>>
    /\ UNCHANGED <<searchVars, sampleVars, indexVars, httpVars>>

\* fetchJSONData and renderFromJSON deliver
AppleDocOk ==
    /\ pc = "apple"
    /\ ~isHigPath(ApplePathname)
    /\ result' = Returned(AppleMarkdown, AppleDocUrl(ApplePathname), "apple")
    /\ pc' = "done"
    /\ UNCHANGED <<request, resolvedUrl, targetUrl, genericFallbackUrl, forceGeneric,
                   fetchUrl, html, firstError, log, detected>>
    /\ UNCHANGED <<searchVars, sampleVars, indexVars, httpVars>>

\* fetchJSONData or renderFromJSON throws
AppleDocFail ==
    /\ pc = "apple"
    /\ ~isHigPath(ApplePathname)
    /\ forceGeneric' = TRUE
    /\ pc' = "fetch"
    /\ UNCHANGED <<request, resolvedUrl, targetUrl, genericFallbackUrl, fetchUrl, html,
                   firstError, log, detected, result>>
    /\ UNCHANGED <<searchVars, sampleVars, indexVars, httpVars>>

(***************************************************************************)
(* The generic path: the fetch fallback sequence.                          *)
(***************************************************************************)
\* !fetchUrl.endsWith("/") && !/\.[a-z0-9]+$/i.test(fetchUrl)
SlashRetryApplies(url) == ~EndsWith(url, sSlash) /\ ~LooksLikeFile(url)

\* where the catch block of the first fetch continues
AfterFirstFailure(url) == IF SlashRetryApplies(url) THEN "slash" ELSE "original"

\* a catch block that repeats the trailing-slash retry after it has delivered
AfterSlashSuccessAgain == "slash"

\* where the catch block continues once the trailing-slash retry has delivered
AfterSlashSuccess == "original"

\* html = await fetchHtml(fetchUrl) delivers
FetchFirstOk ==
    /\ pc = "fetch"
    /\ \E page \in 1..Len(Pages) :
        log' = Append(log, Attempt("target", genericFallbackUrl, TRUE, 200, page))
    /\ fetchUrl' = genericFallbackUrl
    /\ html' = Len(log) + 1
    /\ pc' = "convert"
    /\ UNCHANGED <<request, resolvedUrl, targetUrl, genericFallbackUrl, forceGeneric,
                   firstError, detected, result>>
    /\ UNCHANGED <<searchVars, sampleVars, indexVars, httpVars>>

\* html = await fetchHtml(fetchUrl) throws: the error is caught
FetchFirstFail ==
    /\ pc = "fetch"
    /\ \E status \in FailStatuses :
        /\ log' = Append(log, Attempt("target", genericFallbackUrl, FALSE, status, 0))
        /\ firstError' = status
    /\ fetchUrl' = genericFallbackUrl
    /\ pc' = AfterFirstFailure(genericFallbackUrl)
    /\ UNCHANGED <<request, resolvedUrl, targetUrl, genericFallbackUrl, forceGeneric,
                   html, detected, result>>
    /\ UNCHANGED <<searchVars, sampleVars, indexVars, httpVars>>

\* html = await fetchHtml(withSlash) delivers
FetchSlashOk ==
    /\ pc = "slash"
    /\ \E page \in 1..Len(Pages) :
        log' = Append(log, Attempt("slash", fetchUrl \o sSlash, TRUE, 200, page))
    /\ html' = Len(log) + 1
    /\ fetchUrl' = fetchUrl \o sSlash
    /\ pc' = AfterSlashSuccess
    /\ UNCHANGED <<request, resolvedUrl, targetUrl, genericFallbackUrl, forceGeneric,
                   firstError, detected, result>>
    /\ UNCHANGED <<searchVars, sampleVars, indexVars, httpVars>>

\* html = await fetchHtml(withSlash) throws: the error is dropped
FetchSlashFail ==
    /\ pc = "slash"
    /\ \E status \in FailStatuses :
        log' = Append(log, Attempt("slash", fetchUrl \o sSlash, FALSE, status, 0))
    /\ pc' = "original"
    /\ UNCHANGED <<request, resolvedUrl, targetUrl, genericFallbackUrl, forceGeneric,
                   fetchUrl, html, firstError, detected, result>>
    /\ UNCHANGED <<searchVars, sampleVars, indexVars, httpVars>>

\* resolvedUrl !== targetUrl, and html = await fetchHtml(resolvedUrl) delivers
FetchOriginalOk ==
    /\ pc = "original"
    /\ resolvedUrl # targetUrl
    /\ \E page \in 1..Len(Pages) :
        log' = Append(log, Attempt("original", resolvedUrl, TRUE, 200, page))
    /\ fetchUrl' = resolvedUrl
    /\ html' = Len(log) + 1
    /\ pc' = "convert"
    /\ UNCHANGED <<request, resolvedUrl, targetUrl, genericFallbackUrl, forceGeneric,
                   firstError, detected, result>>
    /\ UNCHANGED <<searchVars, sampleVars, indexVars, httpVars>>

\* resolvedUrl !== targetUrl, and html = await fetchHtml(resolvedUrl) throws
FetchOriginalFail ==
    /\ pc = "original"
    /\ resolvedUrl # targetUrl
    /\ \E status \in FailStatuses :
        /\ log' = Append(log, Attempt("original", resolvedUrl, FALSE, status, 0))
        /\ result' = Thrown("Failed to fetch HTML", status)
    /\ fetchUrl' = resolvedUrl
    /\ pc' = "done"
    /\ UNCHANGED <<request, resolvedUrl, targetUrl, genericFallbackUrl, forceGeneric,
                   html, firstError, detected>>
    /\ UNCHANGED <<searchVars, sampleVars, indexVars, httpVars>>

\* a catch block that throws the error of the attempt made last
RethrownStatusLast(first, attempts) == attempts[Len(attempts)].status

\* the status of the error the catch block throws again
RethrownStatus(first, attempts) == first

\* resolvedUrl === targetUrl: throw error
RethrowFirst ==
    /\ pc = "original"
    /\ resolvedUrl = targetUrl
    /\ result' = Thrown("Failed to fetch HTML", RethrownStatus(firstError, log))
    /\ pc' = "done"
    /\ UNCHANGED <<request, resolvedUrl, targetUrl, genericFallbackUrl, forceGeneric,
                   fetchUrl, html, firstError, log, detected>>
    /\ UNCHANGED <<searchVars, sampleVars, indexVars, httpVars>>

(***************************************************************************)
(* Detection, extraction and conversion of the fetched document.           *)
(***************************************************************************)
\* a detection that ignores the type the request supplies
DetectedTypeIgnoringRequest(force, req, page, url) ==
    IF force THEN "generic" ELSE detectDocsetType(page, url)

\* forceGeneric ? "generic" : (request.docsetType ?? detectDocsetType(html, fetchUrl))
DetectedType(force, req, page, url) ==
    IF force THEN "generic"
    ELSE IF req.docsetType # "none" THEN req.docsetType
    ELSE detectDocsetType(page, url)

\* a return that keeps the detected type when the whole page was converted
ReturnedTypeKept(type, fragmentMarkdown) == type

\* the docsetType returned for the type extracted with and the fragment's Markdown
ReturnedType(type, fragmentMarkdown) == IF fragmentMarkdown = <<>> THEN "html" ELSE type

\* the Markdown before the title is applied
BodyMarkdown(page, fragmentMarkdown) ==
    IF fragmentMarkdown = <<>> THEN htmlToMarkdown(WholeHtml(page)) ELSE fragmentMarkdown

\* the title heading is prepended unless the Markdown begins with it
WithTitle(title, markdown) ==
    IF title # <<>> /\ ~StartsWithTitle(markdown, title)
    THEN << [h |-> 1, text |-> title] >> \o markdown
    ELSE markdown

\* a return that names the normalised target whatever URL delivered
ReturnedUrlTarget(url) == targetUrl

\* the url the document is returned under
ReturnedUrl(url) == url

Converted(page, type, title, fragment) ==
    /\ detected' = type
    /\ result' = Returned(WithTitle(title, BodyMarkdown(page, fragment)),
                          ReturnedUrl(fetchUrl), ReturnedType(type, fragment))

ConvertExtracted(page, type, extracted) ==
    Converted(page, type, extracted.title, htmlToMarkdown(extracted.contentHtml))

ConvertAs(page, type) == ConvertExtracted(page, type, extractDocContent(page, type))

ConvertPage(page) == ConvertAs(page, DetectedType(forceGeneric, request, page, fetchUrl))

\* detection, extraction, conversion and the return of the document
Convert ==
    /\ pc = "convert"
    /\ ConvertPage(Pages[log[html].page])
    /\ pc' = "done"
    /\ UNCHANGED <<request, resolvedUrl, targetUrl, genericFallbackUrl, forceGeneric,
                   fetchUrl, html, firstError, log>>
    /\ UNCHANGED <<searchVars, sampleVars, indexVars, httpVars>>

Next ==
    \/ Resolve
    \/ AppleHigOk \/ AppleHigTocOk \/ AppleHigTocFail \/ AppleHigFail
    \/ AppleDocOk \/ AppleDocFail
    \/ FetchFirstOk \/ FetchFirstFail
    \/ FetchSlashOk \/ FetchSlashFail
    \/ FetchOriginalOk \/ FetchOriginalFail \/ RethrowFirst
    \/ Convert

Spec == Init /\ [][Next]_vars

\* the normaliser alone, over every base of NormBases
NextNorm == Resolve

NormSpec == InitNorm /\ [][NextNorm]_vars

(***************************************************************************)
(* Properties of fetchDocumentationMarkdown, checked under Spec.           *)
(***************************************************************************)
Done == pc = "done"

ReturnedHtml == Done /\ result.kind = "ok" /\ html # 0

AllFailed == \A i \in 1..Len(log) : ~log[i].ok

\* the document the call converted
HtmlPage == Pages[log[html].page]

\* the Markdown of the extracted fragment of a page, for a docset type
FragmentOf(page, type) == htmlToMarkdown(extractDocContent(page, type).contentHtml)

\* C1: on the generic, non-Apple path, when the fetch of the target fails, the
\* target neither ends in "/" nor has a file extension, and the fetch of
\* target + "/" delivers, the call returns url = target + "/" with the Markdown
\* of that response.
C1_SlashRetryReturns ==
    (/\ Done
     /\ ~IsApple(request, targetUrl)
     /\ SlashRetryApplies(targetUrl)
     /\ Len(log) >= 2
     /\ ~log[1].ok
     /\ log[2].stage = "slash" /\ log[2].ok)
    => (result.kind = "ok" /\ result.url = targetUrl \o sSlash /\ html = 2)

\* C2: the original URL is fetched only when every earlier attempt failed and
\* it differs from the target; its outcome is the outcome of the call; no
\* fetch follows an attempt that delivered.
C2_OriginalOnlyAfterFailures ==
    /\ \A i \in 1..Len(log) : log[i].ok => i = Len(log)
    /\ \A i \in 1..Len(log) :
        log[i].stage = "original" =>
            /\ resolvedUrl # targetUrl
            /\ \A j \in 1..(i - 1) : ~log[j].ok
            /\ Done /\ log[i].ok => result.kind = "ok" /\ html = i
            /\ Done /\ ~log[i].ok => result.kind = "error" /\ result.status = log[i].status

C4_UrlOfConvertedFetch ==
    ReturnedHtml
    => /\ html = Len(log)
       /\ log[html].ok
       /\ result.url = log[html].url
       /\ result.markdown =
            WithTitle(extractDocContent(HtmlPage, detected).title,
                      BodyMarkdown(HtmlPage, FragmentOf(HtmlPage, detected)))

\* a call that returned the document of the original URL after the target failed
C4_Witness ==
    /\ ReturnedHtml
    /\ log[html].stage = "original"
    /\ result.url = resolvedUrl
    /\ resolvedUrl # targetUrl

\* C5: when the Markdown of the extracted fragment is empty, the call returns
\* the conversion of the entire HTML (under the title heading) with docsetType
\* "html"; when it is not empty, the call returns the fragment's Markdown and a
\* docsetType other than "html".
C5_WholePageFallback ==
    ReturnedHtml
    => IF FragmentOf(HtmlPage, detected) = <<>>
       THEN /\ result.docsetType = "html"
            /\ result.markdown =
                 WithTitle(extractDocContent(HtmlPage, detected).title,
                           htmlToMarkdown(WholeHtml(HtmlPage)))
       ELSE /\ result.docsetType # "html"
            /\ result.markdown =
                 WithTitle(extractDocContent(HtmlPage, detected).title,
                           FragmentOf(HtmlPage, detected))

\* a call whose extraction left nothing and that returned the whole page
C5_Witness ==
    /\ ReturnedHtml
    /\ FragmentOf(HtmlPage, detected) = <<>>
    /\ result.docsetType = "html"
    /\ result.markdown # <<>>

\* C6 as stated: when request.docsetType is supplied and an HTML fetch
\* delivers, the content is extracted with exactly that type and the returned
\* docsetType is that type or "html".
C6_SuppliedTypeUsed ==
    (ReturnedHtml /\ request.docsetType # "none")
    => /\ detected = request.docsetType
       /\ result.docsetType \in {request.docsetType, "html"}

\* C6 as amended: a request treated as Apple (docsetType "apple" or an Apple
\* host) whose Apple path failed is extracted as "generic" whatever type it
\* supplies; any other request is extracted with the supplied type, and with
\* the detector's output only when it supplies none; the returned docsetType is
\* the type extracted with, or "html".
C6_SuppliedTypeUsedUnlessApple ==
    ReturnedHtml
    => /\ IsApple(request, targetUrl) => detected = "generic"
       /\ ~IsApple(request, targetUrl) /\ request.docsetType # "none"
            => detected = request.docsetType
       /\ ~IsApple(request, targetUrl) /\ request.docsetType = "none"
            => detected = detectDocsetType(HtmlPage, result.url)
       /\ result.docsetType \in {detected, "html"}

\* a call that extracted with the supplied type where the detector says otherwise
C6_Witness ==
    /\ ReturnedHtml
    /\ request.docsetType = "sphinx"
    /\ detected = "sphinx"
    /\ result.docsetType = "sphinx"
    /\ detectDocsetType(HtmlPage, result.url) = "mkdocs"

(***************************************************************************)
(* Properties of the normaliser, checked under NormSpec.                   *)
(***************************************************************************)
Normalised == pc \in {"apple", "fetch"}

ResolvedPathname == ParseUrl(resolvedUrl).pathname

TargetPathname == ParseUrl(targetUrl).pathname

\* the directory holding the last segment of a pathname ending in /index.html
ParentOfIndex(pathname) ==
    IF Len(pathname) = Len(sSlashIndexHtml) THEN sSlash
    ELSE SliceEnd(pathname, Len(sSlashIndexHtml))

\* C7: a path ending in the segment /index.html becomes its parent directory;
\* a path whose last segment is glossary.html is kept; any other path ending
\* in .html loses exactly that extension.
C7_HtmlSuffixRules ==
    Normalised
    => IF EndsWith(ResolvedPathname, sSlashIndexHtml)
       THEN TargetPathname = ParentOfIndex(ResolvedPathname)
       ELSE IF EndsWith(ResolvedPathname, sSlash \o sGlossaryHtml)
       THEN TargetPathname = ResolvedPathname
       ELSE IF EndsWith(ResolvedPathname, sDotHtml)
       THEN TargetPathname = SliceEnd(ResolvedPathname, Len(sDotHtml))
       ELSE TRUE

\* C8: normalising the normalised URL of a base yields it again.
C8_NormalizeIdempotent ==
    (Normalised /\ request.path = <<>>) => NormalizeUrl(targetUrl) = targetUrl

\* C9 as stated: the normalised target carries neither a fragment nor a query.
C9_NoFragmentNoQuery ==
    (Normalised /\ request.path = <<>>)
    => (ParseUrl(targetUrl).fragment = <<>> /\ ParseUrl(targetUrl).query = <<>>)

\* C9 as amended: the normalised target has an empty fragment (url.hash is
\* ""), and its query string is the query string of the base.
C9_NoFragmentQueryKept ==
    (Normalised /\ request.path = <<>>)
    => /\ HashOf(ParseUrl(targetUrl)) = <<>>
       /\ ParseUrl(targetUrl).query = ParseUrl(resolvedUrl).query
       /\ Includes(request.baseUrl, ParseUrl(targetUrl).query)

\* a base with a query and a fragment, normalised to a target ending in the query
C9_Witness ==
    /\ Normalised /\ request.path = <<>>
    /\ EndsWith(Trim(request.baseUrl), sQueryV \o sFragTerms)
    /\ EndsWith(targetUrl, sQueryV)

\* the base of the request as resolveTargetUrl parses it
RequestBase ==
    ParseUrl(IF HasHttpScheme(Trim(request.baseUrl)) THEN Trim(request.baseUrl)
             ELSE sHttps \o Trim(request.baseUrl))

\* C10: a path argument starting with "/" resolves, for a base whose base
\* directory is not "/", to the base directory followed by the path without
\* its leading slash; a base whose directory is "/" resolves it against the
\* origin.
C10_LeadingSlashUnderBaseDir ==
    (Normalised /\ StartsWith(Trim(request.path), sSlash))
    => IF BaseDirOf(RequestBase.pathname) # sSlash
       THEN resolvedUrl = Origin(RequestBase) \o BaseDirOf(RequestBase.pathname)
                          \o Drop(Trim(request.path), 1)
       ELSE resolvedUrl = UrlToString(ResolveUrl(Trim(request.path),
                                                 ParseUrl(Origin(RequestBase) \o sSlash)))

(***************************************************************************)
(* Input validation of fetchDocumentationMarkdown, checked under Spec.     *)
(***************************************************************************)
\* C11: a call whose baseUrl is empty after trimming fails at once with
\* "baseUrl is required" and issues no fetch, whatever the path argument is,
\* an absolute http(s) path included.
C11_BlankBaseRejected ==
    (pc # "idle" /\ Trim(request.baseUrl) = <<>>)
    => /\ log = <<>>
       /\ pc \in {"start", "done"}
       /\ pc = "done" => (result.kind = "error" /\ result.error = "baseUrl is required")

\* a call with a blank base and an absolute path argument that was rejected
C11_Witness ==
    /\ pc = "done"
    /\ Trim(request.baseUrl) = <<>>
    /\ HasHttpScheme(request.path)
    /\ result.kind = "error"

(***************************************************************************)
(* detectDocsetType and extractDocContent applied to sample documents.     *)
(***************************************************************************)
\* the contents of generator meta tags
GeneratorMetas ==
    { <<>>,
      <<"D","o","c","u","s","a","u","r","u","s">>,
      <<"M","k","D","o","c","s">>,
      <<"S","p","h","i","n","x">>,
      <<"T","y","p","e","D","o","c">>,
      <<"J","S","D","o","c"," ","3">>,
      <<"r","u","s","t","d","o","c">>,
      <<"p","d","o","c">> }

\* the marker strings a sample's HTML may contain; the last one is the script
\* reference <script src="_static/documentation_options.js">
MarkerSets ==
    { {}, {"md-content"}, {"wy-nav-side"}, {"tsd-kind"}, {"pkg-overview"},
      {"_static/documentation_options.js"} }

sPlainUrl == <<"h","t","t","p","s",":","/","/","x">>

sGoUrl == sHttps \o sPkgGoDev \o <<"/","f","o","o">>

DetectUrls == {sPlainUrl, sGoUrl, sHttps \o sAppleHost \o <<"/","x">>}

\* a document that is nothing but its generator meta tag and its markers
SignalPage(generator, needles) ==
    [generator |-> generator, needles |-> needles, title |-> <<>>,
     body |-> El("body", "", {}, "", <<>>)]

DetectSamples ==
    { [page |-> SignalPage(g, n), url |-> u, docsetType |-> "none"] :
        g \in GeneratorMetas, n \in MarkerSets, u \in DetectUrls }

\* the <nav> block of a sample: <nav id=... class=...>Home</nav>
NavBlock(id, cls) == El("nav", id, cls, "", <<Txt(<<"Home">>)>>)

\* <main><article><h1>Intro</h1><p>Welcome</p>[<nav>Prev</nav>]</article></main>
MainArticle(innerNav) ==
    El("main", "", {}, "", <<
        El("article", "", {}, "",
           << El("h1", "", {}, "", <<Txt(<<"Intro">>)>>),
              El("p", "", {}, "", <<Txt(<<"Welcome">>)>>) >>
           \o (IF innerNav THEN <<El("nav", "", {}, "", <<Txt(<<"Prev">>)>>)>> ELSE <<>>)) >>)

\* the blocks a sample may hold between its <nav> and its <main>
SideBlocks ==
    { <<>>,
      <<El("div", "content", {}, "", <<Txt(<<"Sidebar">>)>>)>>,
      <<El("div", "", {"document"}, "", <<Txt(<<"Sidebar">>)>>)>>,
      <<El("div", "", {}, "main", <<Txt(<<"Sidebar">>)>>)>>,
      <<El("section", "main", {"page"}, "", <<Txt(<<"Sidebar">>)>>)>> }

\* a document holding a <nav> block and a <main><article> block
NavArticlePage(navId, navCls, side, innerNav) ==
    [generator |-> <<>>, needles |-> {}, title |-> <<"Guide">>,
     body |-> El("body", "", {}, "",
                 <<NavBlock(navId, navCls)>> \o side \o <<MainArticle(innerNav)>>)]

NavArticlePages ==
    { NavArticlePage(i, c, s, n) :
        i \in {"", "content", "main-content"}, c \in {{}, {"content"}},
        s \in SideBlocks, n \in BOOLEAN }

ExtractSamples ==
    { [page |-> p, url |-> sPlainUrl, docsetType |-> t] :
        p \in NavArticlePages, t \in docsetTypes }

InitSample ==
    /\ DocIdle
    /\ SearchIdle
    /\ IndexIdle
    /\ HttpIdle
    /\ sampleDoc \in DetectSamples \cup ExtractSamples
    /\ samplePc = "sample"
    /\ sampleOut = [detected |-> "none", title |-> <<>>, contentHtml |-> <<>>]

\* detectDocsetType(html, url)
Detect ==
    /\ samplePc = "sample"
    /\ sampleDoc.docsetType = "none"
    /\ samplePc' = "detected"
    /\ sampleOut' = [sampleOut EXCEPT
                       !.detected = detectDocsetType(sampleDoc.page, sampleDoc.url)]
    /\ UNCHANGED <<sampleDoc, docVars, searchVars, indexVars, httpVars>>

Extracted(content) ==
    sampleOut' = [sampleOut EXCEPT !.title = content.title,
                                   !.contentHtml = content.contentHtml]

\* extractDocContent(html, docsetType)
Extract ==
    /\ samplePc = "sample"
    /\ sampleDoc.docsetType # "none"
    /\ samplePc' = "extracted"
    /\ Extracted(extractDocContent(sampleDoc.page, sampleDoc.docsetType))
    /\ UNCHANGED <<sampleDoc, docVars, searchVars, indexVars, httpVars>>

NextSample == Detect \/ Extract

SampleSpec == InitSample /\ [][NextSample]_vars

(***************************************************************************)
(* Properties of detectDocsetType and extractDocContent, checked under     *)
(* SampleSpec.                                                             *)
(***************************************************************************)
\* the generator keywords, in the order detectDocsetType asks for them
MetaKeywords ==
    << [type |-> "docusaurus", keyword |-> sDocusaurus],
       [type |-> "mkdocs", keyword |-> sMkdocs],
       [type |-> "sphinx", keyword |-> sSphinx],
       [type |-> "typedoc", keyword |-> sTypedoc],
       [type |-> "jsdoc", keyword |-> sJsdoc],
       [type |-> "rustdoc", keyword |-> sRustdoc],
       [type |-> "pdoc", keyword |-> sPdoc] >>

\* the types whose keyword the generator meta tag of a page names
MetaTypes(generator) ==
    {MetaKeywords[i].type : i \in {j \in 1..Len(MetaKeywords) :
                                     Includes(ToLowerCase(generator), MetaKeywords[j].keyword)}}

Detected == samplePc = "detected"

\* C12: the rule classes are tried in the order hostname, generator meta tag,
\* markers, URL heuristic, default: off an Apple host, a page whose generator
\* meta tag names one generator is classified as that generator, whatever
\* markers its HTML and whatever host its URL contains.
C12_MetaOutranksMarkers ==
    (Detected /\ ~isAppleHost(sampleDoc.url))
    => \A t \in MetaTypes(sampleDoc.page.generator) :
          MetaTypes(sampleDoc.page.generator) = {t} => sampleOut.detected = t

\* C13: a single signal gives its type: a generator meta tag alone gives the
\* generator it names, a reference to _static/documentation_options.js alone
\* gives sphinx, a pkg.go.dev URL alone gives godoc, no signal gives generic.
C13_SingleSignals ==
    Detected
    => /\ (sampleDoc.url = sPlainUrl /\ sampleDoc.page.needles = {})
            => \A t \in MetaTypes(sampleDoc.page.generator) : sampleOut.detected = t
       /\ (sampleDoc.url = sPlainUrl /\ sampleDoc.page.generator = <<>>
           /\ sampleDoc.page.needles = {"_static/documentation_options.js"})
            => sampleOut.detected = "sphinx"
       /\ (sampleDoc.url = sGoUrl /\ sampleDoc.page.generator = <<>>
           /\ sampleDoc.page.needles = {})
            => sampleOut.detected = "godoc"
       /\ (sampleDoc.url = sPlainUrl /\ sampleDoc.page.generator = <<>>
           /\ sampleDoc.page.needles = {})
            => sampleOut.detected = "generic"

\* the words of the text of a list of nodes
WordsOf(nodes) == {TextOfKids(nodes)[i] : i \in 1..Len(TextOfKids(nodes))}

\* C14: for a document holding a <nav> block and a <main><article> block, and
\* every docset type, the extracted content contains the article's text and no
\* text of a <nav> element.
C14_ArticleWithoutNav ==
    (samplePc = "extracted" /\ sampleDoc.page \in NavArticlePages)
    => /\ {"Intro", "Welcome"} \subseteq WordsOf(sampleOut.contentHtml)
       /\ WordsOf(sampleOut.contentHtml) \cap {"Home", "Prev"} = {}

(***************************************************************************)
(* searchDocumentation.  A fetchText call either throws (network error or  *)
(* non-2xx status) or delivers a body; a delivered index is handed to the  *)
(* parser its path and the docsetType select, which throws, returns no     *)
(* entry, or returns entries.  An entry of a result list names its source, *)
(* the base it was resolved against and the URL fetched.                   *)
(***************************************************************************)
searchIndexPaths ==
    << <<"s","e","a","r","c","h","/","s","e","a","r","c","h","_","i","n","d","e","x",".","j","s","o","n">>,
       <<"s","e","a","r","c","h","i","n","d","e","x",".","j","s","o","n">>,
       <<"s","e","a","r","c","h",".","j","s","o","n">>,
       <<"s","e","a","r","c","h","-","i","n","d","e","x",".","j","s","o","n">>,
       <<"s","e","a","r","c","h","i","n","d","e","x",".","j","s">> >>

sDotJson == <<".","j","s","o","n">>

sDotJs == <<".","j","s">>

sSitemapXml == <<"s","i","t","e","m","a","p",".","x","m","l">>

knownVersions ==
    { <<"l","a","t","e","s","t">>, <<"s","t","a","b","l","e">>, <<"d","e","v">>, <<"m","a","s","t","e","r">>,
      <<"m","a","i","n">>, <<"d","e","f","a","u","l","t">>, <<"c","u","r","r","e","n","t">> }

\* parsed.hash = "", parsed.search = "", and the /index.html suffix removed
NormalizeParsed(parsed) ==
    [parsed EXCEPT !.fragment = <<>>, !.query = <<>>,
                   !.pathname = IF ~EndsWith(parsed.pathname, sSlashIndexHtml) THEN parsed.pathname
                                ELSE IF Len(parsed.pathname) = Len(sSlashIndexHtml) THEN sSlash
                                ELSE SliceEnd(parsed.pathname, Len(sSlashIndexHtml))]

NormalizeTrimmed(trimmed) ==
    IF trimmed = <<>> THEN InvalidUrl
    ELSE NormalizeParsed(ParseUrl(IF HasHttpScheme(trimmed) THEN trimmed ELSE sHttps \o trimmed))

\* normalizeInputUrl(input): not ok when the code throws
normalizeInputUrl(input) == NormalizeTrimmed(Trim(input))

\* ensureTrailingSlash(url)
ensureTrailingSlash(url) ==
    IF ~LooksLikeFile(url.pathname) /\ ~EndsWith(url.pathname, sSlash)
    THEN SetPathname(url, url.pathname \o sSlash)
    ELSE url

RECURSIVE Dedupe(_, _)
Dedupe(values, seen) ==
    IF values = <<>> THEN <<>>
    ELSE IF Head(values) \in seen THEN Dedupe(Tail(values), seen)
    ELSE <<Head(values)>> \o Dedupe(Tail(values), seen \cup {Head(values)})

\* dedupePreserveOrder(values)
dedupePreserveOrder(values) == Dedupe(values, {})

IsLetter(c) == \E i \in 1..26 : LowerAZ[i] = c \/ UpperAZ[i] = c

\* [a-z]{2}(?:-[a-z]{2})? with the i flag, matching the whole of s
IsLang(s) ==
    \/ Len(s) = 2 /\ IsLetter(s[1]) /\ IsLetter(s[2])
    \/ Len(s) = 5 /\ IsLetter(s[1]) /\ IsLetter(s[2]) /\ s[3] = "-"
                  /\ IsLetter(s[4]) /\ IsLetter(s[5])

\* knownVersions.has(versionLower) || /^v?\d/i.test(versionLower) || /^\d+\.\d+/.test(versionLower)
looksLikeVersion(versionLower) ==
    \/ versionLower \in knownVersions
    \/ versionLower[1] \in Digits
    \/ Len(versionLower) >= 2 /\ versionLower[1] = "v" /\ versionLower[2] \in Digits

\* the match of ([^/]+)\/ at the head of what follows the language segment
GuessVersion(lang, afterLang, versionEnd) ==
    IF versionEnd = 1 \/ versionEnd > Len(afterLang) THEN <<>>
    ELSE IF ~looksLikeVersion(ToLowerCase(Take(afterLang, versionEnd - 1))) THEN <<>>
    ELSE sSlash \o lang \o sSlash \o Take(afterLang, versionEnd - 1) \o sSlash

\* the match of \/([a-z]{2}(?:-[a-z]{2})?)\/ at the head of the pathname
GuessLang(afterSlash, langEnd) ==
    IF langEnd > Len(afterSlash) \/ ~IsLang(Take(afterSlash, langEnd - 1)) THEN <<>>
    ELSE GuessVersion(Take(afterSlash, langEnd - 1), Drop(afterSlash, langEnd),
                      FirstOf(Drop(afterSlash, langEnd), {"/"}))

\* guessVersionedDocsRootPath(pathname): <<>> for null
guessVersionedDocsRootPath(pathname) ==
    GuessLang(Drop(pathname, 1), FirstOf(Drop(pathname, 1), {"/"}))

RECURSIVE FirstSegment(_)
\* pathname.split("/").filter(Boolean)[0]: <<>> when there is no segment
FirstSegment(pathname) ==
    IF pathname = <<>> THEN <<>>
    ELSE IF Head(pathname) = "/" THEN FirstSegment(Tail(pathname))
    ELSE Take(pathname, FirstOf(pathname, {"/"}) - 1)

Candidates(parsed, versionedRootPath, segment) ==
    (IF versionedRootPath # <<>> THEN <<Origin(parsed) \o versionedRootPath>> ELSE <<>>)
    \o (IF segment # <<>> THEN <<Origin(parsed) \o sSlash \o segment \o sSlash>> ELSE <<>>)
    \o <<UrlToString(ensureTrailingSlash(parsed)), Origin(parsed) \o sSlash>>

CandidatesOf(parsed) ==
    dedupePreserveOrder(Candidates(parsed, guessVersionedDocsRootPath(parsed.pathname),
                                   FirstSegment(parsed.pathname)))

\* buildSearchBaseCandidates(baseUrl), for a base normalizeInputUrl accepts
buildSearchBaseCandidates(baseUrl) == CandidatesOf(normalizeInputUrl(baseUrl))

\* a normaliser of the query that does not trim
normalizeQueryUntrimmed(query) == ToLowerCase(query)

\* normalizeQuery(query)
normalizeQuery(query) == ToLowerCase(Trim(query))

AbsoluteOr(resolved, href) == IF resolved.ok THEN UrlToString(resolved) ELSE href

ResolvedOr(parsedBase, href) ==
    IF parsedBase.ok THEN AbsoluteOr(ResolveUrl(href, parsedBase), href) ELSE href

\* toAbsoluteUrl(baseUrl, href): new URL(href, baseUrl).toString(), href when it throws
toAbsoluteUrl(baseUrl, href) == ResolvedOr(ParseUrl(baseUrl), href)

EndsInJson(path) == EndsWith(path, sDotJson)

EndsInJs(path) == EndsWith(path, sDotJs)

\* a choice of index paths that ignores the docsetType
PathsToTryUnfiltered(docsetType) == searchIndexPaths

\* the index paths the docsetType leaves
PathsToTry(docsetType) ==
    IF docsetType = "mkdocs" THEN SelectSeq(searchIndexPaths, EndsInJson)
    ELSE IF docsetType = "sphinx" THEN SelectSeq(searchIndexPaths, EndsInJs)
    ELSE searchIndexPaths

\* a dispatch that runs the parser of the index path whatever the docsetType
ParserForAnyType(path, docsetType) ==
    IF EndsInJson(path) THEN "mkdocs" ELSE IF EndsInJs(path) THEN "sphinx" ELSE "none"

\* the parser a delivered index is handed to, "none" when it is handed to none
ParserFor(path, docsetType) ==
    IF EndsInJson(path) /\ docsetType \in {"mkdocs", "none"} THEN "mkdocs"
    ELSE IF EndsInJs(path) /\ docsetType \in {"sphinx", "none"} THEN "sphinx"
    ELSE "none"

\* the arguments of the calls of searchDocumentation
SearchBases ==
    { <<"h","t","t","p","s",":","/","/","d","o","c","s",".","e","x","a","m","p","l","e",".","c","o","m","/","e","n","/","s","t","a","b","l","e","/","r","e","f","e","r","e","n","c","e","/","f","o","o","/">>,
      <<"h","t","t","p","s",":","/","/","d","o","c","s",".","e","x","a","m","p","l","e",".","c","o","m">>,
      <<"h","t","t","p","s",":","/","/","d","o","c","s",".","e","x","a","m","p","l","e",".","c","o","m","/","e","n","/","s","t","a","b","l","e">>,
      <<"h","t","t","p","s",":","/","/","d","o","c","s",".","e","x","a","m","p","l","e",".","c","o","m","/","e","n","/","s","t","a","b","l","e","/","i","n","d","e","x",".","h","t","m","l">>,
      <<"d","o","c","s",".","e","x","a","m","p","l","e",".","c","o","m","/","p","t","-","b","r","/","3",".","1","2","/","g","u","i","d","e","/","i","n","t","r","o",".","h","t","m","l","?","v","=","1","#","t","e","r","m","s">>,
      <<"h","t","t","p","s",":","/","/","d","o","c","s",".","e","x","a","m","p","l","e",".","c","o","m","/","e","n","/","g","u","i","d","e","/">>,
      <<"h","t","t","p","s",":","/","/","d","o","c","s",".","e","x","a","m","p","l","e",".","c","o","m","/","g","u","i","d","e","/","i","n","t","r","o">>,
      <<"h","t","t","p","s",":","/","/","d","o","c","s",".","e","x","a","m","p","l","e",".","c","o","m","/","E","N","/","v","2","/">>,
      <<"h","t","t","p","s",":","/","/","d","o","c","s",".","e","x","a","m","p","l","e",".","c","o","m","/","g","u","i","d","e","/","i","n","t","r","o",".","h","t","m","l">>,
      <<" ">> }

SearchQueries == { <<>>, <<" ", " ">>, <<"i","n","t","r","o">>, <<" ","I","n","t","r","o"," ">> }

SearchTypes == {"none", "mkdocs", "sphinx", "generic", "docusaurus"}

InitSearch ==
    /\ DocIdle
    /\ SampleIdle
    /\ IndexIdle
    /\ HttpIdle
    /\ searchArgs \in [baseUrl : SearchBases, query : SearchQueries, docsetType : SearchTypes]
    /\ searchPc = "start"
    /\ bases = <<>>
    /\ pathsToTry = <<>>
    /\ baseIndex = 0
    /\ pathIndex = 0
    /\ fetches = <<>>
    /\ lastOutcome = "none"
    /\ searchReturn = [kind |-> "none", results |-> <<>>, error |-> "none"]

\* return results
ReturnList(results) ==
    /\ searchReturn' = [kind |-> "list", results |-> results, error |-> "none"]
    /\ searchPc' = "done"

\* an error leaves the call
Rejects(error) ==
    /\ searchReturn' = [kind |-> "error", results |-> <<>>, error |-> error]
    /\ searchPc' = "done"

\* the result list a parser builds from the body fetched at url
Entries(source, base, url) == <<[source |-> source, base |-> base, from |-> url]>>

\* await fetchText(url) is issued
Fetched(kind, url, outcome) ==
    /\ fetches' = Append(fetches, [kind |-> kind, url |-> url, hit |-> outcome = "hit"])
    /\ lastOutcome' = outcome

\* if (!normalizedQuery) return []
SearchBlankQuery ==
    /\ searchPc = "start"
    /\ normalizeQuery(searchArgs.query) = <<>>
    /\ ReturnList(<<>>)
    /\ UNCHANGED <<searchArgs, bases, pathsToTry, baseIndex, pathIndex, fetches, lastOutcome>>
    /\ UNCHANGED <<docVars, sampleVars, indexVars, httpVars>>

\* buildSearchBaseCandidates throws: normalizeInputUrl rejects the base
SearchInvalidBase ==
    /\ searchPc = "start"
    /\ normalizeQuery(searchArgs.query) # <<>>
    /\ ~normalizeInputUrl(searchArgs.baseUrl).ok
    /\ Rejects(IF Trim(searchArgs.baseUrl) = <<>> THEN "baseUrl is required" ELSE "Invalid URL")
    /\ UNCHANGED <<searchArgs, bases, pathsToTry, baseIndex, pathIndex, fetches, lastOutcome>>
    /\ UNCHANGED <<docVars, sampleVars, indexVars, httpVars>>

\* const bases = buildSearchBaseCandidates(baseUrl); const pathsToTry = ...
SearchBegin ==
    /\ searchPc = "start"
    /\ normalizeQuery(searchArgs.query) # <<>>
    /\ normalizeInputUrl(searchArgs.baseUrl).ok
    /\ bases' = buildSearchBaseCandidates(searchArgs.baseUrl)
    /\ pathsToTry' = PathsToTry(searchArgs.docsetType)
    /\ baseIndex' = 1
    /\ pathIndex' = 1
    /\ searchPc' = "index"
    /\ UNCHANGED <<searchArgs, fetches, lastOutcome, searchReturn>>
    /\ UNCHANGED <<docVars, sampleVars, indexVars, httpVars>>

\* a loop order with the index paths outside and the bases inside
NextProbePathsOuter(b, p, nBases, nPaths) ==
    IF b < nBases THEN [base |-> b + 1, path |-> p, pc |-> "index"]
    ELSE IF p < nPaths THEN [base |-> 1, path |-> p + 1, pc |-> "index"]
    ELSE [base |-> 1, path |-> 0, pc |-> "sitemap"]

\* a loop that turns to the sitemap as soon as the index paths of one base are through
NextProbeSitemapPerBase(b, p, nBases, nPaths) ==
    IF p < nPaths THEN [base |-> b, path |-> p + 1, pc |-> "index"]
    ELSE [base |-> b, path |-> 0, pc |-> "sitemap"]

\* for (const base of bases) for (const path of pathsToTry): the probe after (b, p)
NextProbe(b, p, nBases, nPaths) ==
    IF p < nPaths THEN [base |-> b, path |-> p + 1, pc |-> "index"]
    ELSE IF b < nBases THEN [base |-> b + 1, path |-> 1, pc |-> "index"]
    ELSE [base |-> 1, path |-> 0, pc |-> "sitemap"]

MovedTo(next) ==
    /\ baseIndex' = next.base
    /\ pathIndex' = next.path
    /\ searchPc' = next.pc

\* a catch block that lets the error of a probe leave the call
ProbeCatchRethrow(thrown) == "throw"

\* catch {}: what follows an index probe that threw
ProbeCatch(thrown) == "continue"

AfterThrow(thrown) ==
    IF ProbeCatch(thrown) = "continue"
    THEN MovedTo(NextProbe(baseIndex, pathIndex, Len(bases), Len(pathsToTry)))
         /\ UNCHANGED searchReturn
    ELSE Rejects(thrown) /\ UNCHANGED <<baseIndex, pathIndex>>

\* toAbsoluteUrl(base, path)
IndexUrl == toAbsoluteUrl(bases[baseIndex], pathsToTry[pathIndex])

\* fetchText(indexUrl) throws: network error or non-2xx status
ProbeFails ==
    /\ searchPc = "index"
    /\ Fetched("index", IndexUrl, "error")
    /\ AfterThrow("Failed to fetch search index")
    /\ UNCHANGED <<searchArgs, bases, pathsToTry>>
    /\ UNCHANGED <<docVars, sampleVars, indexVars, httpVars>>

\* the body is delivered and JSON.parse throws in the parser
ProbeUnparsable ==
    /\ searchPc = "index"
    /\ ParserFor(pathsToTry[pathIndex], searchArgs.docsetType) # "none"
    /\ Fetched("index", IndexUrl, "unparsable")
    /\ AfterThrow("SyntaxError")
    /\ UNCHANGED <<searchArgs, bases, pathsToTry>>
    /\ UNCHANGED <<docVars, sampleVars, indexVars, httpVars>>

\* the body is delivered and no parser runs, or the parser returns no entry
ProbeNoMatch ==
    /\ searchPc = "index"
    /\ Fetched("index", IndexUrl, "empty")
    /\ MovedTo(NextProbe(baseIndex, pathIndex, Len(bases), Len(pathsToTry)))
    /\ UNCHANGED <<searchArgs, bases, pathsToTry, searchReturn>>
    /\ UNCHANGED <<docVars, sampleVars, indexVars, httpVars>>

\* the parser returns entries: return results
ProbeHit ==
    /\ searchPc = "index"
    /\ ParserFor(pathsToTry[pathIndex], searchArgs.docsetType) # "none"
    /\ Fetched("index", IndexUrl, "hit")
    /\ ReturnList(Entries(ParserFor(pathsToTry[pathIndex], searchArgs.docsetType),
                          bases[baseIndex], IndexUrl))
    /\ UNCHANGED <<searchArgs, bases, pathsToTry, baseIndex, pathIndex>>
    /\ UNCHANGED <<docVars, sampleVars, indexVars, httpVars>>

SitemapUrl == toAbsoluteUrl(bases[baseIndex], sSitemapXml)

\* fetchText of a sitemap throws inside the try around the loop: return []
SitemapFails ==
    /\ searchPc = "sitemap"
    /\ Fetched("sitemap", SitemapUrl, "error")
    /\ ReturnList(<<>>)
    /\ UNCHANGED <<searchArgs, bases, pathsToTry, baseIndex, pathIndex>>
    /\ UNCHANGED <<docVars, sampleVars, indexVars, httpVars>>

\* parseSitemap returns no entry: the next base, or return [] after the last
SitemapNoMatch ==
    /\ searchPc = "sitemap"
    /\ Fetched("sitemap", SitemapUrl, "empty")
    /\ IF baseIndex < Len(bases)
       THEN baseIndex' = baseIndex + 1 /\ UNCHANGED <<searchPc, searchReturn>>
       ELSE ReturnList(<<>>) /\ UNCHANGED baseIndex
    /\ UNCHANGED <<searchArgs, bases, pathsToTry, pathIndex>>
    /\ UNCHANGED <<docVars, sampleVars, indexVars, httpVars>>

\* parseSitemap returns entries: return results
SitemapHit ==
    /\ searchPc = "sitemap"
    /\ Fetched("sitemap", SitemapUrl, "hit")
    /\ ReturnList(Entries("sitemap", bases[baseIndex], SitemapUrl))
    /\ UNCHANGED <<searchArgs, bases, pathsToTry, baseIndex, pathIndex>>
    /\ UNCHANGED <<docVars, sampleVars, indexVars, httpVars>>

NextSearch ==
    \/ SearchBlankQuery \/ SearchInvalidBase \/ SearchBegin
    \/ ProbeFails \/ ProbeUnparsable \/ ProbeNoMatch \/ ProbeHit
    \/ SitemapFails \/ SitemapNoMatch \/ SitemapHit

SearchSpec == InitSearch /\ [][NextSearch]_vars

(***************************************************************************)
(* Properties of searchDocumentation, checked under SearchSpec.            *)
(***************************************************************************)
SearchDone == searchPc = "done"

\* the call got past its argument checks
Searching == searchPc \in {"index", "sitemap", "done"} /\ bases # <<>>

\* the number of index probes of a call that exhausts them
IndexProbes == Len(bases) * Len(pathsToTry)

LastFetch == fetches[Len(fetches)]

\* the URL of the k-th index probe, bases outside and index paths inside
ProbeUrl(k) ==
    toAbsoluteUrl(bases[((k - 1) \div Len(pathsToTry)) + 1],
                  pathsToTry[((k - 1) % Len(pathsToTry)) + 1])

\* C15: a query that is blank after trimming returns the empty list and issues
\* no fetch, for every baseUrl and every docsetType.
C15_BlankQueryNoFetch ==
    (searchPc # "idle" /\ Trim(searchArgs.query) = <<>>)
    => /\ fetches = <<>>
       /\ searchPc \in {"start", "done"}
       /\ SearchDone => (searchReturn.kind = "list" /\ searchReturn.results = <<>>)

\* a call with a query of blanks and a blank base that returned the empty list
C15_Witness ==
    /\ SearchDone
    /\ searchArgs.query = <<" ", " ">>
    /\ Trim(searchArgs.baseUrl) = <<>>
    /\ searchReturn.kind = "list"
    /\ fetches = <<>>

\* C16: the index probes are issued base by base and, within a base, index path
\* by index path; the first probe whose parser returns entries ends the call,
\* which returns exactly that list, and no fetch follows it.
C16_ProbeOrderAndShortCircuit ==
    Searching
    => /\ \A k \in 1..Len(fetches) :
            IF k <= IndexProbes
            THEN fetches[k].kind = "index" /\ fetches[k].url = ProbeUrl(k)
            ELSE fetches[k].kind = "sitemap"
       /\ lastOutcome = "hit"
            => /\ SearchDone
               /\ searchReturn.results =
                    Entries(searchReturn.results[1].source,
                            searchReturn.results[1].base, LastFetch.url)
       /\ (SearchDone /\ searchReturn.results # <<>>) => lastOutcome = "hit"

\* a call ended by an index probe at its second base, after a full round of
\* index paths at the first
C16_Witness ==
    /\ SearchDone
    /\ lastOutcome = "hit"
    /\ LastFetch.kind = "index"
    /\ Len(pathsToTry) > 1
    /\ Len(fetches) = Len(pathsToTry) + 2
    /\ searchReturn.results[1].base = bases[2]

\* C17: for a valid base and a non-blank query the call never fails, whatever
\* the fetches deliver, and returns a list; an index probe that failed or did
\* not parse is followed by the next probe in order.
C17_FailuresSwallowed ==
    (Searching /\ Trim(searchArgs.query) # <<>>)
    => /\ searchReturn.kind # "error"
       /\ SearchDone => searchReturn.kind = "list"
       /\ searchPc = "index"
            => Len(fetches) = (baseIndex - 1) * Len(pathsToTry) + pathIndex - 1
       /\ (fetches # <<>> /\ LastFetch.kind = "index"
           /\ lastOutcome \in {"error", "unparsable"})
            => IF Len(fetches) < IndexProbes
               THEN searchPc = "index"
               ELSE searchPc = "sitemap"

\* a call that returned the empty list once its index probes were exhausted and
\* the sitemap fetch at its first base had failed
C17_Witness ==
    /\ SearchDone
    /\ searchReturn.kind = "list"
    /\ searchReturn.results = <<>>
    /\ Len(fetches) = IndexProbes + 1
    /\ lastOutcome = "error"

\* C18: once the index probes are exhausted, sitemap.xml is fetched at each
\* base in order until one has matching entries: a sitemap fetch that fails or
\* matches nothing at one base is followed by the sitemap fetch at the next.
C18_SitemapAtEveryBase ==
    (Searching /\ fetches # <<>> /\ LastFetch.kind = "sitemap"
     /\ lastOutcome \in {"error", "empty"})
    => IF Len(fetches) - IndexProbes < Len(bases)
       THEN searchPc = "sitemap" /\ baseIndex = Len(fetches) - IndexProbes + 1
       ELSE SearchDone /\ searchReturn.results = <<>>

\* C19: with docsetType "mkdocs" no index path ending in .js is fetched, with
\* "sphinx" none ending in .json; the paths left keep their order.
C19_TypeFiltersIndexPaths ==
    Searching
    => /\ searchArgs.docsetType = "mkdocs"
            => /\ pathsToTry = SubSeq(searchIndexPaths, 1, 4)
               /\ \A k \in 1..Len(fetches) :
                    fetches[k].kind = "index" => ~EndsWith(fetches[k].url, sDotJs)
       /\ searchArgs.docsetType = "sphinx"
            => /\ pathsToTry = SubSeq(searchIndexPaths, 5, 5)
               /\ \A k \in 1..Len(fetches) :
                    fetches[k].kind = "index" => ~EndsWith(fetches[k].url, sDotJson)
       /\ searchArgs.docsetType \notin {"mkdocs", "sphinx"}
            => pathsToTry = searchIndexPaths

\* a mkdocs call that went through every index path at every base
C19_Witness ==
    /\ searchPc = "sitemap"
    /\ searchArgs.docsetType = "mkdocs"
    /\ Len(bases) > 1
    /\ Len(fetches) = 4 * Len(bases)

\* the pathname of the base of the call as written, before any normalisation
SearchPathname ==
    ParseUrl(IF HasHttpScheme(Trim(searchArgs.baseUrl)) THEN Trim(searchArgs.baseUrl)
             ELSE sHttps \o Trim(searchArgs.baseUrl)).pathname

SearchLang == FirstSegment(SearchPathname)

SearchVersion == FirstSegment(Drop(SearchPathname, 1 + Len(SearchLang)))

\* C20: for a base whose path begins with a language segment followed by a
\* version segment, the first index probe is issued at
\* origin/lang/version/ + the first allowed index path.
C20_FirstProbeAtVersionedRoot ==
    (Searching /\ fetches # <<>> /\ IsLang(SearchLang) /\ SearchVersion # <<>>
     /\ looksLikeVersion(ToLowerCase(SearchVersion)))
    => fetches[1].url =
         Origin(normalizeInputUrl(searchArgs.baseUrl)) \o sSlash \o SearchLang \o sSlash
         \o SearchVersion \o sSlash \o PathsToTry(searchArgs.docsetType)[1]

\* the call went through every index path at every base
ProbedEverywhere ==
    {toAbsoluteUrl(bases[b], searchIndexPaths[p]) :
        b \in 1..Len(bases), p \in 1..Len(searchIndexPaths)}
    \subseteq {fetches[k].url : k \in {j \in 1..Len(fetches) : fetches[j].kind = "index"}}

\* C30: with a docsetType that is neither "mkdocs" nor "sphinx" every index
\* path is fetched at every base, no index parser runs on a response, and
\* every result returned has source "sitemap".
C30_OtherTypeOnlySitemapResults ==
    (Searching /\ searchArgs.docsetType \notin {"none", "mkdocs", "sphinx"})
    => /\ pathsToTry = searchIndexPaths
       /\ \A k \in 1..Len(fetches) : fetches[k].kind = "index" => ~fetches[k].hit
       /\ lastOutcome # "unparsable"
       /\ searchPc \in {"sitemap", "done"} => ProbedEverywhere
       /\ \A r \in 1..Len(searchReturn.results) :
            searchReturn.results[r].source = "sitemap"

\* a docusaurus call that probed five index paths at each of several bases and
\* returned the entries of a sitemap
C30_Witness ==
    /\ SearchDone
    /\ searchArgs.docsetType = "docusaurus"
    /\ Len(bases) > 1
    /\ Len(fetches) > 5 * Len(bases)
    /\ searchReturn.results # <<>>
    /\ searchReturn.results[1].source = "sitemap"

\* the index probes among the first k fetches
IndexFetchesBefore(k) == {j \in 1..(k - 1) : fetches[j].kind = "index"}

\* C26: no sitemap.xml fetch is issued before every (base, index path) probe of
\* the call has been attempted and has failed or produced no result.
C26_SitemapAfterAllProbes ==
    Searching
    => \A k \in 1..Len(fetches) :
          fetches[k].kind = "sitemap"
          => /\ Cardinality(IndexFetchesBefore(k)) = IndexProbes
             /\ \A j \in IndexFetchesBefore(k) : ~fetches[j].hit
             /\ {toAbsoluteUrl(bases[b], pathsToTry[p]) :
                    b \in 1..Len(bases), p \in 1..Len(pathsToTry)}
                \subseteq {fetches[j].url : j \in IndexFetchesBefore(k)}

\* a call without docsetType at a base with three candidates whose first
\* sitemap fetch has just been issued, after fifteen index probes
C26_Witness ==
    /\ Searching
    /\ searchArgs.docsetType = "none"
    /\ Len(bases) = 3
    /\ Len(fetches) = 16
    /\ LastFetch.kind = "sitemap"
    /\ fetches[15].kind = "index"

\* the candidates in the order stated, the current directory being the path up
\* to its last slash when its last segment looks like a file
DirectoryCandidates(parsed) ==
    dedupePreserveOrder(
        (IF guessVersionedDocsRootPath(parsed.pathname) # <<>>
         THEN <<Origin(parsed) \o guessVersionedDocsRootPath(parsed.pathname)>> ELSE <<>>)
        \o (IF FirstSegment(parsed.pathname) # <<>>
            THEN <<Origin(parsed) \o sSlash \o FirstSegment(parsed.pathname) \o sSlash>>
            ELSE <<>>)
        \o <<Origin(parsed) \o BaseDirOf(parsed.pathname), Origin(parsed) \o sSlash>>)

\* C27: buildSearchBaseCandidates returns the de-duplicated sequence of
\* origin/lang/version/, origin/first-segment/, the current directory and the
\* origin root; every candidate ends in "/", none occurs twice, and the last
\* is the origin root.
C27_CandidatesEndInSlash ==
    Searching
    => /\ bases = DirectoryCandidates(normalizeInputUrl(searchArgs.baseUrl))
       /\ \A i \in 1..Len(bases) : EndsWith(bases[i], sSlash)
       /\ \A i \in 1..Len(bases) : \A j \in 1..Len(bases) : bases[i] = bases[j] => i = j
       /\ bases[Len(bases)] = Origin(normalizeInputUrl(searchArgs.baseUrl)) \o sSlash

(***************************************************************************)
(* One call of either entry point: fetchDocumentationMarkdown or           *)
(* searchDocumentation.  Every fetch completes: each step of a call is a   *)
(* fetch that delivered or threw, together with the code that follows it.  *)
(***************************************************************************)
InitCall == Init \/ InitSearch

NextCall == Next \/ NextSearch

CallSpec == InitCall /\ [][NextCall]_vars

CallDone == pc = "done" \/ searchPc = "done"

\* the sitemap fetches of the call
SitemapFetches == {k \in 1..Len(fetches) : fetches[k].kind = "sitemap"}

\* at most three HTML fetches, one per call site and in the order of the call
\* sites; at most |bases| x |pathsToTry| index probes and |bases| sitemap fetches
FetchesWithinBound ==
    /\ Len(log) <= 3
    /\ \A i \in 1..Len(log) : \A j \in 1..Len(log) :
          i < j => \/ log[i].stage = "target" /\ log[j].stage \in {"slash", "original"}
                   \/ log[i].stage = "slash" /\ log[j].stage = "original"
    /\ Len(bases) <= 4
    /\ Len(pathsToTry) <= 5
    /\ Cardinality(IndexFetchesBefore(Len(fetches) + 1)) <= IndexProbes
    /\ Cardinality(SitemapFetches) <= Len(bases)
    /\ Len(fetches) <= IndexProbes + Len(bases)

\* the call sites of fetchDocumentationMarkdown still ahead of pc
DocStepsLeft ==
    CASE pc = "start" -> 6
      [] pc = "apple" -> 5
      [] pc = "fetch" -> 4
      [] pc = "slash" -> 3
      [] pc = "original" -> 2
      [] pc = "convert" -> 1
      [] OTHER -> 0

\* the fetches searchDocumentation may still issue, and its return
SearchStepsLeft ==
    CASE searchPc = "start" -> 26
      [] searchPc \in {"index", "sitemap"} -> 1 + IndexProbes + Len(bases) - Len(fetches)
      [] OTHER -> 0

StepsLeft == DocStepsLeft + SearchStepsLeft

\* C25: provided every fetch completes, every call terminates, after at most
\* 3 HTML fetches (target, target + "/", original URL) for a document and at
\* most |bases| x |paths| + |bases| fetches, |bases| <= 4 and |paths| <= 5, for
\* a search; no attempt is repeated.  Termination: the number of steps left to
\* a call is a natural number that every step decreases, and is 0 only when
\* the call is over.
C25_TerminatesWithinBound ==
    /\ [](FetchesWithinBound /\ StepsLeft \in Nat /\ (StepsLeft = 0 <=> CallDone))
    /\ [][StepsLeft' < StepsLeft]_vars

\* a document call that ended after three HTML fetches, or a search call that
\* ended after the last sitemap fetch of four bases and five index paths
C25_Witness ==
    \/ pc = "done" /\ Len(log) = 3
    \/ /\ SearchDone
       /\ Len(bases) = 4
       /\ Len(pathsToTry) = 5
       /\ Len(fetches) = 24

\* C29: within one call of fetchDocumentationMarkdown or of searchDocumentation
\* no URL is fetched more than once: the fallback URLs of a document request
\* are pairwise distinct, and distinct (base, index path) pairs and distinct
\* sitemap probes never resolve to the same URL.
C29_NoUrlFetchedTwice ==
    /\ \A i \in 1..Len(log) : \A j \in 1..Len(log) : log[i].url = log[j].url => i = j
    /\ \A i \in 1..Len(fetches) : \A j \in 1..Len(fetches) :
          fetches[i].url = fetches[j].url => i = j

\* the title extracted from the document the call converted
ExtractedTitle == extractDocContent(HtmlPage, detected).title

TitleHeading == [h |-> 1, text |-> ExtractedTitle]

\* C28: whenever fetchDocumentationMarkdown succeeds with a non-empty extracted
\* title, the first line of the returned Markdown is the level-1 heading of
\* that title, and the heading does not appear twice at the top.
C28_TitleHeadingFirst ==
    (ReturnedHtml /\ ExtractedTitle # <<>>)
    => /\ result.markdown # <<>>
       /\ result.markdown[1] = TitleHeading
       /\ Len(result.markdown) > 1 => result.markdown[2] # TitleHeading

(***************************************************************************)
(* The index parsers.  A fetched body is modelled after JSON.parse: json   *)
(* tells whether it parses, data is the parsed object, and wrapper names   *)
(* the call a .js body embeds the object in.  An optional property is a    *)
(* sequence of at most one value; a document id n addresses element n + 1  *)
(* of a list.                                                              *)
(***************************************************************************)
ManyDocs == 22

LongTextLen == 205

SnippetLength == 200

MaxResults == 20

sUntitled == <<"U","n","t","i","t","l","e","d">>

\* a ?? b
OrElse(option, default) == IF option = <<>> THEN default ELSE option[1]

\* list[index]: no value beyond the list
At(list, index) ==
    IF index + 1 \in 1..Len(list) THEN <<list[index + 1]>> ELSE <<>>

\* a filter that compares the title and the text as written
MkDocsMatchesAsWritten(doc, query) ==
    \/ Includes(OrElse(doc.title, <<>>), query)
    \/ Includes(OrElse(doc.text, <<>>), query)

\* the filter of parseMkDocsIndex
MkDocsMatches(doc, query) ==
    \/ Includes(ToLowerCase(OrElse(doc.title, <<>>)), query)
    \/ Includes(ToLowerCase(OrElse(doc.text, <<>>)), query)

\* the entry parseMkDocsIndex maps a document to
MkDocsEntry(doc, baseUrl) ==
    [title |-> OrElse(doc.title, sUntitled),
     url |-> IF OrElse(doc.location, <<>>) # <<>>
             THEN toAbsoluteUrl(baseUrl, OrElse(doc.location, <<>>))
             ELSE baseUrl,
     snippet |-> Take(OrElse(doc.text, <<>>), SnippetLength),
     source |-> "mkdocs"]

RECURSIVE MkDocsResults(_, _, _)
MkDocsResults(docs, baseUrl, query) ==
    IF docs = <<>> THEN <<>>
    ELSE (IF MkDocsMatches(Head(docs), query)
          THEN <<MkDocsEntry(Head(docs), baseUrl)>> ELSE <<>>)
         \o MkDocsResults(Tail(docs), baseUrl, query)

\* parseMkDocsIndex(raw, baseUrl, query), for a raw that JSON.parse accepts
parseMkDocsIndex(raw, baseUrl, query) ==
    MkDocsResults(OrElse(raw.data.docs, <<>>), baseUrl, query)

\* [a-z0-9_-]
IsTokenChar(c) == c \in Digits \/ c \in {"_", "-"} \/ \E i \in 1..26 : LowerAZ[i] = c

RECURSIVE Tokens(_, _)
\* split(/[^a-z0-9_-]+/g) and filter(Boolean): token is the token under way
Tokens(s, token) ==
    IF s = <<>> THEN (IF token = <<>> THEN <<>> ELSE <<token>>)
    ELSE IF IsTokenChar(Head(s)) THEN Tokens(Tail(s), Append(token, Head(s)))
    ELSE (IF token = <<>> THEN <<>> ELSE <<token>>) \o Tokens(Tail(s), <<>>)

\* tokenizeQuery(query)
tokenizeQuery(query) == Tokens(ToLowerCase(query), <<>>)

\* JSON values of a terms posting: a number, an array, anything else
Num(n) == [kind |-> "number", id |-> n, entries |-> <<>>]

Arr(entries) == [kind |-> "array", id |-> 0, entries |-> entries]

Other == [kind |-> "other", id |-> 0, entries |-> <<>>]

RECURSIVE IdsOfEntries(_)
IdsOfEntries(entries) ==
    IF entries = <<>> THEN <<>>
    ELSE (IF Head(entries).kind = "number" THEN <<Head(entries).id>>
          ELSE IF /\ Head(entries).kind = "array"
                  /\ Head(entries).entries # <<>>
                  /\ Head(entries).entries[1].kind = "number"
          THEN <<Head(entries).entries[1].id>>
          ELSE <<>>)
         \o IdsOfEntries(Tail(entries))

\* extractSphinxDocIds(value)
extractSphinxDocIds(value) ==
    IF value.kind = "number" THEN <<value.id>>
    ELSE IF value.kind # "array" THEN <<>>
    ELSE IdsOfEntries(value.entries)

\* terms[token]
TermOf(terms, token) == IF token \in DOMAIN terms THEN terms[token] ELSE Other

\* scores.set(docId, (scores.get(docId) ?? 0) + n): the map keeps insertion order
AddScore(scores, docId, n) ==
    IF \E k \in 1..Len(scores) : scores[k].doc = docId
    THEN [k \in 1..Len(scores) |->
            IF scores[k].doc = docId
            THEN [doc |-> docId, score |-> scores[k].score + n] ELSE scores[k]]
    ELSE Append(scores, [doc |-> docId, score |-> n])

\* v as a value: TLC computes the accumulator of a loop at every iteration
\* rather than deferring all of them to the end of the loop
Computed(v) == v = v

RECURSIVE AddPostings(_, _)
AddPostings(scores, docIds) ==
    IF Computed(scores) /\ docIds = <<>> THEN scores
    ELSE AddPostings(AddScore(scores, Head(docIds), 2), Tail(docIds))

RECURSIVE ScoreTokens(_, _, _)
\* for (const token of tokens) for (const docId of docIds) ...
ScoreTokens(scores, tokens, terms) ==
    IF tokens = <<>> THEN scores
    ELSE ScoreTokens(AddPostings(scores, extractSphinxDocIds(TermOf(terms, Head(tokens)))),
                     Tail(tokens), terms)

TitleMatches(title, docname, query) ==
    Includes(ToLowerCase(title), query) \/ Includes(ToLowerCase(OrElse(docname, <<>>)), query)

RECURSIVE ScoreTitles(_, _, _, _, _)
\* for (const [index, title] of titles.entries()) ...
ScoreTitles(scores, index, titles, docnames, query) ==
    IF Computed(scores) /\ index >= Len(titles) THEN scores
    ELSE ScoreTitles(IF TitleMatches(titles[index + 1], At(docnames, index), query)
                     THEN AddScore(scores, index, 3) ELSE scores,
                     index + 1, titles, docnames, query)

\* the scores of parseSphinxIndex, in the insertion order of the map
SphinxScores(data, query) ==
    ScoreTitles(ScoreTokens(<<>>, tokenizeQuery(query), OrElse(data.terms, <<>>)),
                0, OrElse(data.titles, <<>>), OrElse(data.docnames, <<>>), query)

\* where a stable descending sort puts entry in a sorted list
InsertRanked(sorted, entry) ==
    SelectSeq(sorted, LAMBDA e : e.score >= entry.score)
    \o <<entry>> \o SelectSeq(sorted, LAMBDA e : e.score < entry.score)

RECURSIVE SortRanked(_, _)
\* sort((a, b) => b[1] - a[1])
SortRanked(sorted, scores) ==
    IF Computed(sorted) /\ scores = <<>> THEN sorted
    ELSE SortRanked(InsertRanked(sorted, Head(scores)), Tail(scores))

\* filenames[index] ?? (docnames[index] ? `${docnames[index]}.html` : "")
SphinxFilename(filename, docname) ==
    OrElse(filename, IF OrElse(docname, <<>>) # <<>> THEN OrElse(docname, <<>>) \o sDotHtml
                     ELSE <<>>)

SphinxUrl(filename, baseUrl) ==
    IF filename # <<>> THEN toAbsoluteUrl(baseUrl, filename) ELSE baseUrl

\* the entry of a ranked document; doc is the id it was built from
SphinxEntryAt(doc, title, docname, url) ==
    [title |-> OrElse(title, OrElse(docname, url)), url |-> url, snippet |-> <<>>,
     source |-> "sphinx", doc |-> doc]

SphinxEntry(doc, titles, docnames, filenames, baseUrl) ==
    SphinxEntryAt(doc, At(titles, doc), At(docnames, doc),
                  SphinxUrl(SphinxFilename(At(filenames, doc), At(docnames, doc)), baseUrl))

\* filter((entry) => Boolean(entry.title) && Boolean(entry.url))
SphinxKept(entry) == entry.title # <<>> /\ entry.url # <<>>

RECURSIVE SphinxEntries(_, _, _, _, _)
SphinxEntries(ranked, titles, docnames, filenames, baseUrl) ==
    IF ranked = <<>> THEN <<>>
    ELSE <<SphinxEntry(Head(ranked).doc, titles, docnames, filenames, baseUrl)>>
         \o SphinxEntries(Tail(ranked), titles, docnames, filenames, baseUrl)

SphinxResults(data, baseUrl, query) ==
    SelectSeq(SphinxEntries(Take(SortRanked(<<>>, SphinxScores(data, query)), MaxResults),
                            OrElse(data.titles, <<>>), OrElse(data.docnames, <<>>),
                            OrElse(data.filenames, <<>>), baseUrl),
              SphinxKept)

\* parseSphinxIndex(raw, baseUrl, query), for a raw whose object JSON.parse accepts
parseSphinxIndex(raw, baseUrl, query) ==
    IF raw.wrapper = "none" THEN <<>> ELSE SphinxResults(raw.data, baseUrl, query)

(***************************************************************************)
(* The indexes, probing bases and normalised queries the parsers are       *)
(* applied to.                                                             *)
(***************************************************************************)
Doc(title, text, location) == [title |-> title, text |-> text, location |-> location]

Raw(wrapper, json, data) == [wrapper |-> wrapper, json |-> json, data |-> data]

\* the index of the MkDocs search test
TestMkDocsData ==
    [docs |-> << <<
        Doc(<<<<"I","n","t","r","o">>>>, <<<<"W","e","l","c","o","m","e"," ","t","o"," ","t","h","e"," ","g","u","i","d","e">>>>, <<<<"/","i","n","t","r","o","/">>>>),
        Doc(<<<<"I","n","s","t","a","l","l">>>>, <<<<"S","e","t","u","p"," ","s","t","e","p","s">>>>, <<<<"/","i","n","s","t","a","l","l","/">>>>) >> >>]

\* a text longer than a snippet that ends in a query word
LongText == [i \in 1..LongTextLen |-> "x"] \o <<" ","i","n","s","t","a","l","l">>

\* documents without title, without text, without location, with a relative
\* location, and with a text longer than a snippet
VariedMkDocsData ==
    [docs |-> << <<
        Doc(<<>>, <<<<"H","o","w"," ","t","o"," ","I","N","S","T","A","L","L"," ","t","h","i","n","g","s">>>>, <<<<"s","e","t","u","p","/">>>>),
        Doc(<<<<"C","h","a","n","g","e","l","o","g">>>>, <<<<"F","i","x","e","s">>>>, <<<<"c","h","a","n","g","e","l","o","g","/">>>>),
        Doc(<<<<"I","n","s","t","a","l","l"," ","g","u","i","d","e">>>>, <<>>, <<>>),
        Doc(<<<<"R","e","f","e","r","e","n","c","e">>>>, <<LongText>>, <<<<"/","r","e","f","e","r","e","n","c","e","/","i","n","s","t","a","l","l","/">>>>) >> >>]

MkDocsRaws ==
    { Raw("none", TRUE, TestMkDocsData),
      Raw("none", TRUE, VariedMkDocsData),
      Raw("none", TRUE, [docs |-> <<>>]),
      Raw("none", FALSE, [docs |-> <<>>]) }

SphinxData(docnames, titles, filenames, terms) ==
    [docnames |-> docnames, titles |-> titles, filenames |-> filenames, terms |-> terms]

\* the index of the Sphinx search test
TestSphinxData ==
    SphinxData(<< <<<<"i","n","t","r","o">>, <<"a","p","i">>>> >>, << <<<<"I","n","t","r","o">>, <<"A","P","I"," ","R","e","f","e","r","e","n","c","e">>>> >>,
               << <<<<"i","n","t","r","o",".","h","t","m","l">>, <<"a","p","i",".","h","t","m","l">>>> >>,
               << (<<"a","l","p","h","a">> :> Arr(<<Num(0)>>)) @@ (<<"b","e","t","a">> :> Arr(<<Arr(<<Num(1), Num(2)>>)>>)) >>)

\* a posting that names document 5 of an index of two documents
BeyondSphinxData ==
    SphinxData(<< <<<<"i","n","t","r","o">>, <<"a","p","i">>>> >>, << <<<<"I","n","t","r","o">>, <<"A","P","I"," ","R","e","f","e","r","e","n","c","e">>>> >>,
               << <<<<"i","n","t","r","o",".","h","t","m","l">>, <<"a","p","i",".","h","t","m","l">>>> >>,
               << (<<"a","l","p","h","a">> :> Arr(<<Num(0), Num(5)>>)) >>)

\* an index whose titles list is shorter than its docnames list
ShortTitlesSphinxData ==
    SphinxData(<< <<<<"g","u","i","d","e">>, <<"i","n","t","r","o">>>> >>, << <<<<"G","u","i","d","e">>>> >>,
               << <<<<"g","u","i","d","e",".","h","t","m","l">>, <<"i","n","t","r","o",".","h","t","m","l">>>> >>,
               << (<<"i","n","t","r","o">> :> Arr(<<Num(0), Num(1)>>)) >>)

\* an index with docnames only
DocnamesSphinxData ==
    SphinxData(<< <<<<"i","n","t","r","o">>, <<"a","p","i">>>> >>, <<>>, <<>>,
               << (<<"a","l","p","h","a">> :> Num(1)) @@ (<<"b","e","t","a">> :> Other) >>)

DigitSeq == <<"0","1","2","3","4","5","6","7","8","9">>

PageName(n) == <<"p","a","g","e","-">> \o <<DigitSeq[(n \div 10) + 1], DigitSeq[(n % 10) + 1]>>

\* an index of ManyDocs documents, each posted under "page"
ManySphinxData ==
    SphinxData(<< [i \in 1..ManyDocs |-> PageName(i - 1)] >>,
               << [i \in 1..ManyDocs |-> <<"P">> \o Tail(PageName(i - 1))] >>,
               <<>>,
               << (<<"p","a","g","e">> :> Arr([i \in 1..ManyDocs |-> Num(i - 1)]))
                  @@ (<<"a","l","p","h","a">> :> Num(3))
                  @@ (<<"b","e","t","a">> :> Arr(<<Arr(<<Num(21), Num(7)>>), Other, Arr(<<>>),
                                      Arr(<<Other>>)>>)) >>)

NoSphinxData == SphinxData(<<>>, <<>>, <<>>, <<>>)

SphinxRaws ==
    { Raw("Search.setIndex", TRUE, TestSphinxData),
      Raw("var index", TRUE, TestSphinxData),
      Raw("Search.setIndex", TRUE, BeyondSphinxData),
      Raw("Search.setIndex", TRUE, ShortTitlesSphinxData),
      Raw("Search.setIndex", TRUE, DocnamesSphinxData),
      Raw("Search.setIndex", TRUE, ManySphinxData),
      Raw("Search.setIndex", TRUE, NoSphinxData),
      Raw("Search.setIndex", FALSE, NoSphinxData),
      Raw("none", FALSE, NoSphinxData) }

IndexBases == { <<"h","t","t","p","s",":","/","/","d","o","c","s",".","e","x","a","m","p","l","e",".","c","o","m","/">>, <<"h","t","t","p","s",":","/","/","d","o","c","s",".","e","x","a","m","p","l","e",".","c","o","m","/","e","n","/","s","t","a","b","l","e","/">> }

MkDocsQueries == { <<"i","n","s","t","a","l","l">>, <<"i","n","t","r","o">>, <<"g","u","i","d","e">>, <<"z","z","z">> }

SphinxQueries ==
    { <<"a","l","p","h","a">>, <<"b","e","t","a">>, <<"i","n","t","r","o">>, <<"p","a","g","e">>, <<"a","l","p","h","a"," ","p","a","g","e">>, <<"a","l","p","h","a"," ","a","l","p","h","a">>, <<"a","p","i"," ","r","e","f","e","r","e","n","c","e">>,
      <<"p","a","g","e","-","0","7">> }

InitIndex ==
    /\ DocIdle
    /\ SearchIdle
    /\ SampleIdle
    /\ HttpIdle
    /\ indexArgs \in
         [kind : {"mkdocs"}, raw : MkDocsRaws, baseUrl : IndexBases, query : MkDocsQueries]
         \cup [kind : {"sphinx"}, raw : SphinxRaws, baseUrl : IndexBases,
               query : SphinxQueries]
    /\ indexPc = "start"
    /\ indexOut = [kind |-> "none", results |-> <<>>]

\* JSON.parse throws
ParseThrows == [kind |-> "error", results |-> <<>>]

ParseReturns(results) == [kind |-> "list", results |-> results]

\* parseMkDocsIndex(raw, base, normalizedQuery)
ParseMkDocs ==
    /\ indexPc = "start"
    /\ indexArgs.kind = "mkdocs"
    /\ indexOut' = IF indexArgs.raw.json
                   THEN ParseReturns(parseMkDocsIndex(indexArgs.raw, indexArgs.baseUrl,
                                                      indexArgs.query))
                   ELSE ParseThrows
    /\ indexPc' = "done"
    /\ UNCHANGED <<indexArgs, docVars, searchVars, sampleVars, httpVars>>

\* parseSphinxIndex(raw, base, normalizedQuery)
ParseSphinx ==
    /\ indexPc = "start"
    /\ indexArgs.kind = "sphinx"
    /\ indexOut' = IF indexArgs.raw.wrapper # "none" /\ ~indexArgs.raw.json
                   THEN ParseThrows
                   ELSE ParseReturns(parseSphinxIndex(indexArgs.raw, indexArgs.baseUrl,
                                                      indexArgs.query))
    /\ indexPc' = "done"
    /\ UNCHANGED <<indexArgs, docVars, searchVars, sampleVars, httpVars>>

NextIndex == ParseMkDocs \/ ParseSphinx

IndexSpec == InitIndex /\ [][NextIndex]_vars

(***************************************************************************)
(* Properties of the index parsers, checked under IndexSpec.               *)
(***************************************************************************)
ParsedMkDocs == indexPc = "done" /\ indexArgs.kind = "mkdocs" /\ indexArgs.raw.json

IndexDocs == OrElse(indexArgs.raw.data.docs, <<>>)

\* the property is present and its lower-cased value contains the query
ContainsQuery(option) ==
    option # <<>> /\ Includes(ToLowerCase(option[1]), indexArgs.query)

MatchingDocs ==
    {i \in 1..Len(IndexDocs) :
        ContainsQuery(IndexDocs[i].title) \/ ContainsQuery(IndexDocs[i].text)}

\* a location resolved against a probing base that ends in "/"
LocationUrl(location) ==
    IF location = <<>> THEN indexArgs.baseUrl
    ELSE IF StartsWith(location[1], sSlash)
    THEN Origin(ParseUrl(indexArgs.baseUrl)) \o location[1]
    ELSE indexArgs.baseUrl \o location[1]

\* C21: the results of parseMkDocsIndex are exactly the entries of the docs
\* list, in index order, whose lower-cased title or text contains the query;
\* each has the entry's title ("Untitled" if absent), its location resolved
\* against the probing base (the base if absent), the first 200 characters of
\* its text, and source "mkdocs".
C21_MkDocsEntriesInOrder ==
    ParsedMkDocs
    => /\ indexOut.kind = "list"
       /\ Len(indexOut.results) = Cardinality(MatchingDocs)
       /\ \A i \in MatchingDocs :
            indexOut.results[Cardinality({j \in MatchingDocs : j <= i})] =
                [title |-> IF IndexDocs[i].title = <<>> THEN sUntitled
                           ELSE IndexDocs[i].title[1],
                 url |-> LocationUrl(IndexDocs[i].location),
                 snippet |-> IF IndexDocs[i].text = <<>> THEN <<>>
                             ELSE SubSeq(IndexDocs[i].text[1], 1,
                                         Min(200, Len(IndexDocs[i].text[1]))),
                 source |-> "mkdocs"]

\* three of four documents matched: one without title, one without text and
\* location, one whose text is longer than a snippet
C21_Witness ==
    /\ ParsedMkDocs
    /\ Len(IndexDocs) = 4
    /\ Len(indexOut.results) = 3
    /\ indexOut.results[1].title = sUntitled
    /\ indexOut.results[2].url = indexArgs.baseUrl
    /\ indexOut.results[2].snippet = <<>>
    /\ Len(indexOut.results[3].snippet) = 200

ParsedSphinx == indexPc = "done" /\ indexArgs.kind = "sphinx" /\ indexOut.kind = "list"

SphinxTitles == OrElse(indexArgs.raw.data.titles, <<>>)

SphinxDocnames == OrElse(indexArgs.raw.data.docnames, <<>>)

SphinxFilenames == OrElse(indexArgs.raw.data.filenames, <<>>)

PostingsIn(value) ==
    IF value.kind = "number" THEN <<value>>
    ELSE IF value.kind = "array" THEN value.entries
    ELSE <<>>

\* the postings under the k-th token of the query: a bare id is one posting
PostingsOf(k) ==
    PostingsIn(TermOf(OrElse(indexArgs.raw.data.terms, <<>>),
                      tokenizeQuery(indexArgs.query)[k]))

\* a posting names a document by a bare id or by the first element of an array
NamesDoc(posting, doc) ==
    \/ posting.kind = "number" /\ posting.id = doc
    \/ /\ posting.kind = "array"
       /\ posting.entries # <<>>
       /\ posting.entries[1].kind = "number"
       /\ posting.entries[1].id = doc

\* the postings of the query's tokens that name doc
PostingsNaming(doc) ==
    {p \in UNION {{<<k, e>> : e \in 1..Len(PostingsOf(k))} :
                    k \in 1..Len(tokenizeQuery(indexArgs.query))} :
        NamesDoc(PostingsOf(p[1])[p[2]], doc)}

\* the title or the docname of doc contains the full query
FullQueryIn(doc) ==
    \/ At(SphinxTitles, doc) # <<>>
       /\ Includes(ToLowerCase(At(SphinxTitles, doc)[1]), indexArgs.query)
    \/ At(SphinxDocnames, doc) # <<>>
       /\ Includes(ToLowerCase(At(SphinxDocnames, doc)[1]), indexArgs.query)

\* score(doc) as stated
StatedScore(doc) ==
    2 * Cardinality(PostingsNaming(doc)) + (IF FullQueryIn(doc) THEN 3 ELSE 0)

\* C22: parseSphinxIndex returns at most 20 results, ordered by non-increasing
\* score, where score(doc) is 2 for every posting of a query token that names
\* the doc plus 3 if the doc's title or docname contains the full query; only
\* documents with a positive score are returned.
C22_SphinxRankedByScore ==
    ParsedSphinx
    => /\ Len(indexOut.results) <= 20
       /\ \A k \in 1..(Len(indexOut.results) - 1) :
            StatedScore(indexOut.results[k].doc) >= StatedScore(indexOut.results[k + 1].doc)
       /\ \A k \in 1..Len(indexOut.results) : StatedScore(indexOut.results[k].doc) > 0

\* the file of a document as stated: its filename, else its docname + ".html"
StatedFile(doc) ==
    IF At(SphinxFilenames, doc) # <<>> THEN At(SphinxFilenames, doc)[1]
    ELSE At(SphinxDocnames, doc)[1] \o sDotHtml

\* C23: every result of parseSphinxIndex belongs to a document id for which
\* the index has a filename or a docname, and its url is the filename if
\* present, else docname + ".html", resolved against the probing base.
C23_SphinxResultsHaveFile ==
    ParsedSphinx
    => \A k \in 1..Len(indexOut.results) :
          /\ \/ At(SphinxFilenames, indexOut.results[k].doc) # <<>>
             \/ At(SphinxDocnames, indexOut.results[k].doc) # <<>>
          /\ indexOut.results[k].url =
                indexArgs.baseUrl \o StatedFile(indexOut.results[k].doc)

\* ---------------------------------------------------------------------------
\* The HTTP application: routes in registration order and their handlers
\* ---------------------------------------------------------------------------

sApiSlash == <<"/","a","p","i","/">>
sApiSearchSlash == <<"/","a","p","i","/","s","e","a","r","c","h","/">>
sStar == <<"*">>
sSlashStar == <<"/","*">>
sQuestion == <<"?">>
sHttpWord == <<"h","t","t","p">>

Route(method, pattern, handler) == [method |-> method, pattern |-> pattern, handler |-> handler]

\* app.all("/mcp"), app.get("/api/*"), app.get("/api/search/*"), app.all("*"),
\* in the order in which the application registers them
Routes ==
    << Route("ALL", <<"/","m","c","p">>, "mcp"),
       Route("GET", sApiSlash \o sStar, "document"),
       Route("GET", sApiSearchSlash \o sStar, "search"),
       Route("ALL", sStar, "notFound") >>

\* the router's pattern language as far as the registered patterns use it: "*"
\* matches every path, a trailing "/*" matches the prefix and everything below
\* it, any other pattern matches itself
PatternMatches(pattern, path) ==
    IF pattern = sStar THEN TRUE
    ELSE IF EndsWith(pattern, sSlashStar)
         THEN \/ path = SubSeq(pattern, 1, Len(pattern) - 2)
              \/ StartsWith(path, SubSeq(pattern, 1, Len(pattern) - 1))
         ELSE path = pattern

RouteMatches(route, req) ==
    /\ route.method \in {"ALL", req.method}
    /\ PatternMatches(route.pattern, req.path)

MatchedRoutes(req) == SelectSeq(Routes, LAMBDA route : RouteMatches(route, req))

\* every handler of the application returns a response or throws, none hands
\* over to the next one: the first matching route answers
AnsweringHandler(req) == MatchedRoutes(req)[1].handler

\* String.prototype.replace(pattern, "") with a string pattern: the first
\* occurrence is removed, the rest kept
FirstOccurrence(s, p) ==
    CHOOSE i \in 0..(Len(s) - Len(p)) :
        /\ SubSeq(s, i + 1, i + Len(p)) = p
        /\ \A j \in 0..(i - 1) : SubSeq(s, j + 1, j + Len(p)) # p

RemoveAt(s, i, n) == SubSeq(s, 1, i) \o SubSeq(s, i + n + 1, Len(s))

RemoveFirst(s, p) == IF Includes(s, p) THEN RemoveAt(s, FirstOccurrence(s, p), Len(p)) ELSE s

\* decodeURIComponent on the escapes the requests below carry
Escapes == { <<<<"%","3","A">>, ":">>, <<<<"%","2","F">>, "/">>, <<<<"%","2","0">>, " ">> }

EscapeAt(s) == { esc \in Escapes : StartsWith(s, esc[1]) }

RECURSIVE decodeURIComponent(_)
decodeURIComponent(s) ==
    IF s = <<>> THEN <<>>
    ELSE IF EscapeAt(s) # {}
         THEN <<(CHOOSE esc \in EscapeAt(s) : TRUE)[2]>> \o decodeURIComponent(SubSeq(s, 4, Len(s)))
         ELSE <<Head(s)>> \o decodeURIComponent(Tail(s))

\* encodeURI: a space and a percent sign are escaped; every other character
\* of the requests below is one encodeURI leaves alone
EncodeChar(c) == IF c = " " THEN <<"%","2","0">> ELSE IF c = "%" THEN <<"%","2","5">> ELSE <<c>>

RECURSIVE encodeURI(_)
encodeURI(s) == IF s = <<>> THEN <<>> ELSE EncodeChar(Head(s)) \o encodeURI(Tail(s))

WithQuery(decodedPath, search) ==
    IF search # <<>> /\ ~Includes(decodedPath, sQuestion) THEN decodedPath \o search ELSE decodedPath

NormalizedInput(withQuery) ==
    IF StartsWith(withQuery, sHttpWord) THEN withQuery ELSE sHttps \o withQuery

TargetUrl(rawPath, search) ==
    encodeURI(NormalizedInput(WithQuery(decodeURIComponent(rawPath), search)))

Response(handler, status, type, query, target) ==
    [handler |-> handler, status |-> status, type |-> type, query |-> query, target |-> target]

AcceptedType(req) == IF req.accept = "application/json" THEN "json" ELSE "text"

\* app.onError: an HTTPException answers with its own response, any other
\* error with 500 in the representation the Accept header asks for
Unavailable(handler, req, target) == Response(handler, 500, AcceptedType(req), <<>>, <<target>>)

\* the handler of app.get("/api/*"); outcome is what fetchDocumentationMarkdown
\* does with the target: it delivers at least 100 characters of markdown,
\* too little, or throws
DocumentAnswer(req, rawPath, outcome) ==
    IF rawPath = <<>> THEN Response("document", 400, "text", <<>>, <<>>)
    ELSE IF outcome = "throws" THEN Unavailable("document", req, TargetUrl(rawPath, req.search))
    ELSE IF outcome = "insufficient"
         THEN Response("document", 502, "text", <<>>, <<TargetUrl(rawPath, req.search)>>)
    ELSE Response("document", 200, AcceptedType(req), <<>>, <<TargetUrl(rawPath, req.search)>>)

DocumentHandler(req, outcome) ==
    DocumentAnswer(req, RemoveFirst(req.path, sApiSlash), outcome)

\* the handler of app.get("/api/search/*"); outcome is what searchDocumentation
\* does: it returns a list of results (possibly short or empty) or throws
SearchAnswer(req, rawPath, query, outcome) ==
    IF rawPath = <<>> THEN Response("search", 400, "text", <<>>, <<>>)
    ELSE IF query = <<>> THEN Response("search", 400, "text", <<>>, <<>>)
    ELSE IF outcome = "throws" THEN Unavailable("search", req, TargetUrl(rawPath, req.search))
    ELSE Response("search", 200, "json", <<query>>, <<TargetUrl(rawPath, req.search)>>)

SearchHandler(req, outcome) ==
    SearchAnswer(req, RemoveFirst(req.path, sApiSearchSlash),
                 Trim(OrElse(req.q, <<>>)), outcome)

\* the catch-all answers 404; trimTrailingSlash turns a 404 for a GET of a
\* path with a trailing slash into a redirect to the path without it
NotFoundHandler(req) ==
    IF req.method = "GET" /\ req.path # sSlash /\ EndsWith(req.path, sSlash)
    THEN Response("notFound", 301, "redirect", <<>>, <<>>)
    ELSE Response("notFound", 404, "text", <<>>, <<>>)

McpHandler(req) == Response("mcp", 200, "mcp", <<>>, <<>>)

Answer(handler, req, outcome) ==
    CASE handler = "mcp" -> McpHandler(req)
      [] handler = "document" -> DocumentHandler(req, outcome)
      [] handler = "search" -> SearchHandler(req, outcome)
      [] OTHER -> NotFoundHandler(req)

\* --- requests ---------------------------------------------------------------

sDocsUrl == sHttps \o sDocsHost \o sSlash \o sGuide

HttpPaths ==
    { sApiSearchSlash \o sDocsUrl,
      sApiSearchSlash \o sDocsHost,
      sApiSearchSlash \o <<"h","t","t","p","s","%","3","A","%","2","F","%","2","F">> \o sDocsHost,
      sApiSearchSlash,
      sApiSlash \o sDocsUrl,
      sApiSlash \o sDocsHost,
      sApiSlash,
      <<"/","m","c","p">>,
      sSlash,
      <<"/","o","t","h","e","r","/">> }

\* the query string of the req and the value c.req.query("q") reads from it
HttpQueries ==
    { [search |-> <<>>, q |-> <<>>],
      [search |-> <<"?","q","=">>, q |-> << <<>> >>],
      [search |-> <<"?","q","=","%","2","0">>, q |-> << <<" ">> >>],
      [search |-> <<"?","q","=","i","n","t","r","o">>, q |-> <<sIntro>>],
      [search |-> <<"?","q","=","%","2","0","i","n","t","r","o">>, q |-> <<<<" ">> \o sIntro>>] }

HttpRequests ==
    { [method |-> m, path |-> p, search |-> s.search, q |-> s.q, accept |-> a] :
        m \in {"GET", "POST"}, p \in HttpPaths, s \in HttpQueries,
        a \in {"application/json", "text/markdown"} }

HandlerOutcomes == {"delivers", "insufficient", "throws"}

InitHttp ==
    /\ DocIdle /\ SearchIdle /\ SampleIdle /\ IndexIdle
    /\ httpRequest \in HttpRequests
    /\ httpPc = "received"
    /\ httpResponse = [handler |-> "none"]

\* the router picks the handler of the first registered route that matches
Dispatch ==
    /\ httpPc = "received"
    /\ httpPc' = "routed"
    /\ httpResponse' = [handler |-> AnsweringHandler(httpRequest)]
    /\ UNCHANGED <<httpRequest, docVars, searchVars, sampleVars, indexVars>>

\* the picked handler runs to its response
Handle ==
    /\ httpPc = "routed"
    /\ \E outcome \in HandlerOutcomes :
          httpResponse' = Answer(httpResponse.handler, httpRequest, outcome)
    /\ httpPc' = "done"
    /\ UNCHANGED <<httpRequest, docVars, searchVars, sampleVars, indexVars>>

NextHttp == Dispatch \/ Handle

HttpSpec == InitHttp /\ [][NextHttp]_vars

\* a GET of /api/search/<docs-url>?q=<non-blank query>
IsSearchRequest ==
    /\ httpRequest.method = "GET"
    /\ StartsWith(httpRequest.path, sApiSearchSlash)
    /\ Len(httpRequest.path) > Len(sApiSearchSlash)
    /\ Trim(OrElse(httpRequest.q, <<>>)) # <<>>

\* C24: a GET of /api/search/<docs-url>?q=<non-blank query> is answered by the
\* search handler, never by the /api/* document handler, and when the search
\* completes the answer is 200 with the JSON body {query, results}.
C24_SearchRouteAnswers ==
    (httpPc = "done" /\ IsSearchRequest)
    => /\ httpResponse.handler = "search"
       /\ httpResponse.handler # "document"
       /\ httpResponse.status = 200
            => /\ httpResponse.type = "json"
               /\ httpResponse.query = <<Trim(httpRequest.q[1])>>

====
